---- MODULE Spec2Model ----
(***************************************************************************)
(* Catalogue enrichment pipeline (XML products -> enriched JSON through a  *)
(* local Ollama service), modelled over its source iterations:             *)
(*   v002  Iteracion/002  domains + classify call + cache + faq            *)
(*   v003  Iteracion/003  domains, two models, retry loop                  *)
(*   v004  Iteracion/004  no domains, format=json retry                    *)
(*   v007  Iteracion/007  similarity based anti-redundancy, RULES_VERSION  *)
(*   v008  Iteracion/008  containment based anti-redundancy, repair prompt *)
(*   final version final/src/enrich_products.py (no cache, no ledger)      *)
(*                                                                         *)
(* Text is a sequence of one-character tokens.  An accented letter is a    *)
(* two-character token (letter followed by ' or ~), so that accent         *)
(* stripping, lower-casing, containment and similarity are computed on     *)
(* the characters the program sees.  A SHA-1 digest is modelled by the     *)
(* canonical serialisation it is computed over (no collisions).            *)
(***************************************************************************)
EXTENDS Integers, Sequences, FiniteSets, TLC

(***************************************************************************)
(* Characters                                                              *)
(***************************************************************************)
UpperSeq == <<"A","B","C","D","E","F","G","H","I","J","K","L","M",
              "N","O","P","Q","R","S","T","U","V","W","X","Y","Z">>
LowerSeq == <<"a","b","c","d","e","f","g","h","i","j","k","l","m",
              "n","o","p","q","r","s","t","u","v","w","x","y","z">>
Digits == {"0","1","2","3","4","5","6","7","8","9"}
AsciiLower == {LowerSeq[k] : k \in 1..26}
AsciiUpper == {UpperSeq[k] : k \in 1..26}
\* accented lower-case letters (NFD: base letter + combining mark)
AccentLower == {"a'","e'","i'","o'","u'","u~","n~"}
AccentUpper == {"A'","E'","I'","O'","U'","N~"}
Spaces == {" ", "\n", "\t"}

\* str.lower() on one character
LowerCh(c) ==
    IF c \in AsciiUpper THEN LowerSeq[CHOOSE k \in 1..26 : UpperSeq[k] = c]
    ELSE IF c = "A'" THEN "a'" ELSE IF c = "E'" THEN "e'"
    ELSE IF c = "I'" THEN "i'" ELSE IF c = "O'" THEN "o'"
    ELSE IF c = "U'" THEN "u'" ELSE IF c = "N~" THEN "n~"
    ELSE c

\* unicodedata.normalize("NFD"/"NFKD") followed by dropping combining marks
StripAccentCh(c) ==
    IF c = "a'" THEN "a" ELSE IF c = "e'" THEN "e" ELSE IF c = "i'" THEN "i"
    ELSE IF c = "o'" THEN "o" ELSE IF c \in {"u'","u~"} THEN "u"
    ELSE IF c = "n~" THEN "n"
    ELSE IF c = "A'" THEN "A" ELSE IF c = "E'" THEN "E" ELSE IF c = "I'" THEN "I"
    ELSE IF c = "O'" THEN "O" ELSE IF c = "U'" THEN "U" ELSE IF c = "N~" THEN "N"
    ELSE c

\* regex \w with re.UNICODE: letters (accented too), digits, underscore
IsWordCh(c) ==
    c \in AsciiLower \cup AsciiUpper \cup Digits \cup AccentLower \cup AccentUpper \cup {"_"}

IsSpaceCh(c) == c \in Spaces

(***************************************************************************)
(* Strings                                                                 *)
(***************************************************************************)
MapStr(s, F(_)) == [k \in 1..Len(s) |-> F(s[k])]

Lower(s) == MapStr(s, LowerCh)

RECURSIVE LStrip(_)
LStrip(s) == IF s # <<>> /\ IsSpaceCh(Head(s)) THEN LStrip(Tail(s)) ELSE s

RECURSIVE RStrip(_)
RStrip(s) ==
    IF s # <<>> /\ IsSpaceCh(s[Len(s)]) THEN RStrip(SubSeq(s, 1, Len(s) - 1)) ELSE s

\* str.strip()
Strip(s) == RStrip(LStrip(s))

\* s[:n]
Prefix(s, n) == IF Len(s) <= n THEN s ELSE SubSeq(s, 1, n)

\* a in b (substring containment)
Contains(b, a) ==
    \E k \in 0..(Len(b) - Len(a)) : SubSeq(b, k + 1, k + Len(a)) = a

StartsWith(s, p) == Len(s) >= Len(p) /\ SubSeq(s, 1, Len(p)) = p

RECURSIVE Concat(_)
Concat(ss) == IF ss = <<>> THEN <<>> ELSE Head(ss) \o Concat(Tail(ss))

\* sep.join(parts)
RECURSIVE Join(_, _)
Join(parts, sep) ==
    IF parts = <<>> THEN <<>>
    ELSE IF Len(parts) = 1 THEN parts[1]
    ELSE parts[1] \o sep \o Join(Tail(parts), sep)

\* str.split(): the maximal runs of non-space characters
RECURSIVE SplitWords(_, _, _)
SplitWords(s, cur, acc) ==
    IF s = <<>> THEN (IF cur = <<>> THEN acc ELSE Append(acc, cur))
    ELSE IF IsSpaceCh(Head(s))
         THEN SplitWords(Tail(s), <<>>, IF cur = <<>> THEN acc ELSE Append(acc, cur))
         ELSE SplitWords(Tail(s), Append(cur, Head(s)), acc)

Words(s) == SplitWords(s, <<>>, <<>>)

\* re.sub(r"\s+", " ", s)
\* two collapsed texts put together: a run of spaces across the seam is one
JoinCollapsed(a, b) ==
    IF a # <<>> /\ b # <<>> /\ a[Len(a)] = " " /\ b[1] = " " THEN a \o Tail(b) ELSE a \o b

\* computed by halves, so that the depth of the recursion stays small on
\* long texts
RECURSIVE CollapseSpaces(_)
CollapseSpaces(s) ==
    IF s = <<>> THEN <<>>
    ELSE IF Len(s) = 1 THEN (IF IsSpaceCh(s[1]) THEN <<" ">> ELSE s)
    ELSE LET h == Len(s) \div 2
         IN  JoinCollapsed(CollapseSpaces(SubSeq(s, 1, h)),
                           CollapseSpaces(SubSeq(s, h + 1, Len(s))))

\* re.sub(r"[<class>]+", sep, s) for a character class given as a predicate
RECURSIVE SubRuns(_, _, _)
SubRuns(s, InClass(_), sep) ==
    IF s = <<>> THEN <<>>
    ELSE IF InClass(Head(s))
         THEN IF Len(s) > 1 /\ InClass(s[2])
              THEN SubRuns(Tail(s), InClass, sep)
              ELSE sep \o SubRuns(Tail(s), InClass, sep)
         ELSE <<Head(s)>> \o SubRuns(Tail(s), InClass, sep)

\* str.strip(chars) for a one-character set
RECURSIVE StripCh(_, _)
StripCh(s, c) ==
    IF s # <<>> /\ Head(s) = c THEN StripCh(Tail(s), c)
    ELSE IF s # <<>> /\ s[Len(s)] = c THEN StripCh(SubSeq(s, 1, Len(s) - 1), c)
    ELSE s

\* list(dict.fromkeys(xs)): first occurrences, order kept
RECURSIVE DedupeSeq(_, _)
DedupeSeq(xs, acc) ==
    IF xs = <<>> THEN acc
    ELSE DedupeSeq(Tail(xs),
                   IF \E k \in 1..Len(acc) : acc[k] = Head(xs) THEN acc
                   ELSE Append(acc, Head(xs)))

Dedupe(xs) == DedupeSeq(xs, <<>>)

SeqToSet(xs) == {xs[k] : k \in 1..Len(xs)}

(***************************************************************************)
(* Records: ordered mappings field name -> text, as a sequence of          *)
(* <<name, value>> pairs in insertion order (a Python dict).               *)
(***************************************************************************)
HasKey(rec, k) == \E j \in 1..Len(rec) : rec[j][1] = k

\* dict.get(k, d)
Get(rec, k, d) ==
    IF HasKey(rec, k) THEN rec[CHOOSE j \in 1..Len(rec) : rec[j][1] = k][2] ELSE d

KeysOf(rec) == [j \in 1..Len(rec) |-> rec[j][1]]

PairSet(rec) == {rec[j] : j \in 1..Len(rec)}

\* {k: product.get(k) for k in keys if k not in excluded}
RECURSIVE SelectPairs(_, _)
SelectPairs(rec, excluded) ==
    IF rec = <<>> THEN <<>>
    ELSE IF Head(rec)[1] \in excluded THEN SelectPairs(Tail(rec), excluded)
    ELSE <<Head(rec)>> \o SelectPairs(Tail(rec), excluded)

\* {k: product.get(k) for k in wanted if k in product}, wanted a tuple
RECURSIVE PickPairs(_, _)
PickPairs(rec, wanted) ==
    IF wanted = <<>> THEN <<>>
    ELSE IF HasKey(rec, Head(wanted))
         THEN <<<<Head(wanted), Get(rec, Head(wanted), <<>>)>>>> \o PickPairs(rec, Tail(wanted))
         ELSE PickPairs(rec, Tail(wanted))

\* Code-point order of the key names that occur in records and key objects
\* (the order of sorted() and of json.dumps(sort_keys=True)).
KeyOrder ==
    <<"bateria_horas", "capacidad_mah", "categoria", "category", "color",
      "conectividad", "conexion", "descripcion", "description", "domain",
      "enabled", "enlace", "extras", "fields", "format_json", "grosor",
      "imagen", "lavado", "marca", "material", "metros", "model", "modelo",
      "name", "nombre", "num_predict", "numero", "ollama", "ollama_enabled",
      "ollama_model", "precio", "product", "size", "talla", "tamano",
      "taman~o", "temp", "temperature", "v">>

Rank(k) == CHOOSE j \in 1..Len(KeyOrder) : KeyOrder[j] = k

\* insertion of one pair into a sequence of pairs sorted by key
RECURSIVE InsertSorted(_, _)
InsertSorted(p, sorted) ==
    IF sorted = <<>> THEN <<p>>
    ELSE IF Rank(p[1]) < Rank(Head(sorted)[1]) THEN <<p>> \o sorted
    ELSE <<Head(sorted)>> \o InsertSorted(p, Tail(sorted))

RECURSIVE SortPairs(_)
SortPairs(pairs) ==
    IF pairs = <<>> THEN <<>> ELSE InsertSorted(Head(pairs), SortPairs(Tail(pairs)))

(***************************************************************************)
(* JSON values and their serialisation.  A value is tagged:                *)
(*   [t |-> "s", v |-> text]   [t |-> "n", v |-> number]                   *)
(*   [t |-> "b", v |-> bool]   [t |-> "o", v |-> <<name, value>> pairs]    *)
(***************************************************************************)
JStr(s) == [t |-> "s", v |-> s]
JNum(n) == [t |-> "n", v |-> n]
JBool(b) == [t |-> "b", v |-> b]
JObj(pairs) == [t |-> "o", v |-> pairs]

\* a record's fields as a JSON object
RecObj(rec) == JObj([j \in 1..Len(rec) |-> <<rec[j][1], JStr(rec[j][2])>>])

DumpScalar(j) ==
    CASE j.t = "s" -> <<"\"">> \o j.v \o <<"\"">>
      [] j.t = "n" -> <<ToString(j.v)>>
      [] j.t = "b" -> <<IF j.v THEN "true" ELSE "false">>

\* json.dumps(obj, sort_keys=sortKeys): the text, token by token; the members
\* of every object in insertion order, or sorted by name when sortKeys
RECURSIVE JsonDumps(_, _)
RECURSIVE DumpMembers(_, _)
DumpMembers(pairs, sortKeys) ==
    IF pairs = <<>> THEN <<>>
    ELSE <<"\"", Head(pairs)[1], "\"", ":">> \o JsonDumps(Head(pairs)[2], sortKeys)
         \o (IF Len(pairs) > 1 THEN <<",">> ELSE <<>>)
         \o DumpMembers(Tail(pairs), sortKeys)

JsonDumps(j, sortKeys) ==
    IF j.t = "o"
    THEN <<"{">>
         \o DumpMembers(IF sortKeys THEN SortPairs(j.v) ELSE j.v, sortKeys)
         \o <<"}">>
    ELSE DumpScalar(j)

DumpsUnsorted(j) == JsonDumps(j, FALSE)

Dumps(j) == JsonDumps(j, TRUE)

\* variant: the digest of the serialisation in insertion order
sha1_key_insertion_order(obj) == DumpsUnsorted(obj)

\* sha1_key: the digest of the canonical serialisation
sha1_key(obj) == Dumps(obj)

(***************************************************************************)
(* Configuration.  The module-level settings of each script, as one record *)
(*   enabled  OLLAMA_ENABLED / USE_OLLAMA                                  *)
(*   model    OLLAMA_MODEL (v003: OLLAMA_MODEL_ENRICH)                     *)
(*   temp     TEMPERATURE, in hundredths                                   *)
(*   npred    NUM_PREDICT                                                  *)
(*   fmt      TRY_FORMAT_JSON                                              *)
(*   rules    RULES_VERSION (read by v007 only; the other iterations       *)
(*            write the key version as a literal)                          *)
(***************************************************************************)
CachingVersions == {"v002", "v003", "v004", "v007", "v008"}
Versions == CachingVersions \cup {"final"}

\* fields left out of extras by v007 and v008
Base007 == {"nombre", "descripcion", "categoria", "material", "tamano", "taman~o",
            "precio", "marca", "modelo", "imagen", "enlace"}
Base008 == {"nombre", "descripcion", "categoria", "material",
            "precio", "marca", "modelo", "imagen", "enlace"}
Extras003 == <<"tamano", "grosor", "metros", "lavado", "color">>

\* The object each iteration hands to sha1_key.
CacheKeyObj(ver, rec, dom, c) ==
    CASE ver = "v002" ->
           JObj(<< <<"domain", JStr(<<dom>>)>>, <<"fields", RecObj(rec)>> >>)
      [] ver = "v003" ->
           JObj(<< <<"v", JNum(2)>>,
                   <<"domain", JStr(<<dom>>)>>,
                   <<"nombre", JStr(Get(rec, "nombre", <<>>))>>,
                   <<"descripcion", JStr(Get(rec, "descripcion", <<>>))>>,
                   <<"categoria", JStr(Get(rec, "categoria", <<>>))>>,
                   <<"material", JStr(Get(rec, "material", <<>>))>>,
                   <<"extras", RecObj(PickPairs(rec, Extras003))>>,
                   <<"model", JStr(<<IF c.enabled THEN c.model ELSE "none">>)>> >>)
      [] ver = "v004" ->
           JObj(<< <<"v", JNum(1)>>,
                   <<"product", RecObj(rec)>>,
                   <<"ollama_enabled", JBool(c.enabled)>>,
                   <<"ollama_model", JStr(<<c.model>>)>>,
                   <<"temperature", JNum(c.temp)>>,
                   <<"num_predict", JNum(c.npred)>> >>)
      [] ver = "v007" ->
           JObj(<< <<"v", JNum(c.rules)>>,
                   <<"nombre", JStr(Get(rec, "nombre", <<>>))>>,
                   <<"descripcion", JStr(Get(rec, "descripcion", <<>>))>>,
                   <<"categoria", JStr(Get(rec, "categoria", <<>>))>>,
                   <<"material", JStr(Get(rec, "material", <<>>))>>,
                   <<"tamano", JStr(Get(rec, "tamano", Get(rec, "taman~o", <<>>)))>>,
                   <<"marca", JStr(Get(rec, "marca", <<>>))>>,
                   <<"modelo", JStr(Get(rec, "modelo", <<>>))>>,
                   <<"extras", RecObj(SelectPairs(rec, Base007))>>,
                   <<"ollama", JObj(<< <<"enabled", JBool(c.enabled)>>,
                                       <<"model", JStr(<<c.model>>)>>,
                                       <<"format_json", JBool(c.fmt)>>,
                                       <<"temp", JNum(c.temp)>>,
                                       <<"num_predict", JNum(c.npred)>> >>)>> >>)
      [] ver = "v008" ->
           JObj(<< <<"v", JNum(3)>>,
                   <<"model", JStr(<<IF c.enabled THEN c.model ELSE "none">>)>>,
                   <<"nombre", JStr(Get(rec, "nombre", <<>>))>>,
                   <<"descripcion", JStr(Get(rec, "descripcion", <<>>))>>,
                   <<"categoria", JStr(Get(rec, "categoria", <<>>))>>,
                   <<"material", JStr(Get(rec, "material", <<>>))>>,
                   <<"marca", JStr(Get(rec, "marca", <<>>))>>,
                   <<"modelo", JStr(Get(rec, "modelo", <<>>))>>,
                   <<"extras", RecObj(SortPairs(SelectPairs(rec, Base008)))>> >>)

\* the cache key of a record
CacheKey(ver, rec, dom, c) == sha1_key(CacheKeyObj(ver, rec, dom, c))

(***************************************************************************)
(* Domain detection: keyword heuristics (v002 heuristic_domain, v003       *)
(* detect_domain_heuristic).  Confidence is in hundredths.                 *)
(***************************************************************************)
Kw3d002 ==
    << <<"p","l","a">>,
       <<"p","e","t","g">>,
       <<"r","e","s","i","n","a">>,
       <<"a","b","s">>,
       <<"f","i","l","a","m","e","n","t","o">>,
       <<"i","m","p","r","e","s","o"," ","e","n"," ","3","d">>,
       <<"i","m","p","r","e","s","i","o","n"," ","3","d">>,
       <<"s","t","l">> >>

KwFootwear002 ==
    << <<"z","a","p","a","t","i","l","l">>,
       <<"s","n","e","a","k","e","r">>,
       <<"r","u","n","n","i","n","g">>,
       <<"s","u","e","l","a">>,
       <<"c","o","r","d","o","n","e","s">>,
       <<"p","l","a","n","t","i","l","l","a">>,
       <<"a","m","o","r","t","i","g","u">>,
       <<"p","i","s","a","d","a">>,
       <<"t","r","a","i","l">> >>

KwApparel002 ==
    << <<"c","a","m","i","s","e","t","a">>,
       <<"s","u","d","a","d","e","r","a">>,
       <<"p","a","n","t","a","l","o","n">>,
       <<"c","h","a","q","u","e","t","a">>,
       <<"t","a","l","l","a"," ","s">>,
       <<"t","a","l","l","a"," ","m">>,
       <<"t","a","l","l","a"," ","l">>,
       <<"a","l","g","o","d","o","n">>,
       <<"p","o","l","i","e","s","t","e","r">> >>

KwTalla == <<"t","a","l","l","a">>

KwElec002 ==
    << <<"u","s","b">>,
       <<"b","l","u","e","t","o","o","t","h">>,
       <<"c","a","r","g","a","d","o","r">>,
       <<"b","a","t","e","r","i","a">>,
       <<"v","o","l","t">>,
       <<"w","a","t","t">>,
       <<"h","z">>,
       <<"c","o","m","p","a","t","i","b","l","e"," ","c","o","n">>,
       <<"s","m","a","r","t","p","h","o","n","e">>,
       <<"a","u","r","i","c","u","l","a","r">> >>

KwFood002 ==
    << <<"i","n","g","r","e","d","i","e","n","t","e">>,
       <<"a","l","e","r","g","e","n">>,
       <<"s","a","b","o","r">>,
       <<"k","c","a","l">>,
       <<"g","r","a","m","o","s">>,
       <<"g","l","u","t","e","n">>,
       <<"v","e","g","a","n","o">>,
       <<"s","i","n"," ","a","z","u","c","a","r">> >>

KwService002 ==
    << <<"s","e","r","v","i","c","i","o">>,
       <<"s","u","s","c","r","i","p","c","i","o","n">>,
       <<"m","a","n","t","e","n","i","m","i","e","n","t","o">>,
       <<"i","n","s","t","a","l","a","c","i","o","n">>,
       <<"c","o","n","s","u","l","t","o","r","i","a">>,
       <<"c","l","a","s","e","s">>,
       <<"r","e","s","e","r","v","a">> >>

ReMaterial3d ==
    << <<"p","l","a">>,
       <<"p","e","t","g">>,
       <<"a","b","s">>,
       <<"a","s","a">>,
       <<"r","e","s","i","n","a">>,
       <<"r","e","s","i","n">> >>

Kw3dPhrases003 ==
    << <<"i","m","p","r","e","s","i","o","n"," ","3","d">>,
       <<"i","m","p","r","e","s","i","o'","n"," ","3","d">>,
       <<"i","m","p","r","e","s","o"," ","e","n"," ","3","d">>,
       <<"i","m","p","r","e","s","a"," ","e","n"," ","3","d">> >>

YARN_HINTS ==
    << <<"l","a","n","a">>,
       <<"o","v","i","l","l","o">>,
       <<"h","i","l","o">>,
       <<"m","e","r","i","n","o">>,
       <<"a","l","p","a","c","a">>,
       <<"a","l","g","o","d","o'","n">>,
       <<"a","l","g","o","d","o","n">>,
       <<"c","h","e","n","i","l","l","e">>,
       <<"a","m","i","g","u","r","u","m","i">>,
       <<"c","r","o","c","h","e","t">>,
       <<"g","a","n","c","h","i","l","l","o">>,
       <<"t","e","j","e","r">>,
       <<"p","u","n","t","o">> >>

FOOTWEAR_HINTS ==
    << <<"z","a","p","a","t","i","l","l","a">>,
       <<"z","a","p","a","t","o">>,
       <<"t","a","l","l","a">>,
       <<"s","u","e","l","a">>,
       <<"s","n","e","a","k","e","r">> >>

\* any(k in text for k in kws)
AnyIn(text, kws) == \E k \in 1..Len(kws) : Contains(text, kws[k])

\* a regex word boundary between positions p-1 and p of s
BoundaryAt(s, p) ==
    LET before == p > 1 /\ p - 1 <= Len(s) /\ IsWordCh(s[p - 1])
        after  == p >= 1 /\ p <= Len(s) /\ IsWordCh(s[p])
    IN  before # after

\* re.search(r"\b(eu\s*)?\d{2}\b", text)
SizeRe(text) ==
    \E p \in 1..(Len(text) - 1) :
        /\ text[p] \in Digits /\ text[p + 1] \in Digits
        /\ BoundaryAt(text, p + 2)
        /\ \/ BoundaryAt(text, p)
           \/ \E q \in 1..(p - 2) :
                /\ text[q] = "e" /\ text[q + 1] = "u"
                /\ \A r \in (q + 2)..(p - 1) : IsSpaceCh(text[r])
                /\ BoundaryAt(text, q)

\* re.search(r"\b(w1|w2|...)\b", text)
WordIn(text, kws) ==
    \E k \in 1..Len(kws) : \E p \in 1..(Len(text) - Len(kws[k]) + 1) :
        /\ SubSeq(text, p, p + Len(kws[k]) - 1) = kws[k]
        /\ BoundaryAt(text, p)
        /\ BoundaryAt(text, p + Len(kws[k]))

\* safe_text: (s or "").strip()
safe_text(s) == Strip(s)

\* the lower-cased blob v002 matches its keywords against
HeurText002(prod) ==
    Lower(Join(<< safe_text(Get(prod, "nombre", <<>>)),
                  safe_text(Get(prod, "descripcion", <<>>)),
                  safe_text(Get(prod, "categoria", <<>>)),
                  safe_text(Get(prod, "material", <<>>)),
                  safe_text(Get(prod, "tamano", <<>>)),
                  safe_text(Get(prod, "talla", <<>>)),
                  safe_text(Get(prod, "numero", <<>>)),
                  safe_text(Get(prod, "color", <<>>)),
                  safe_text(Get(prod, "marca", <<>>)) >>, <<" ">>))

\* the rule predicates of heuristic_domain, in source order
Rule3d002(text) == AnyIn(text, Kw3d002)
RuleFootwear002(text) == AnyIn(text, KwFootwear002) \/ SizeRe(text)
RuleApparel002(text) == AnyIn(text, KwApparel002) \/ Contains(text, KwTalla)
RuleElec002(text) == AnyIn(text, KwElec002)
RuleFood002(text) == AnyIn(text, KwFood002)
RuleService002(text) == AnyIn(text, KwService002)

Heur(d, c, sig) == [domain |-> d, confidence |-> c, signals |-> sig]

Generic002 == Heur("generic", 40, <<"no strong signals">>)

\* variant: the footwear rule tried before the 3D printing rule
heuristic_domain_footwear_first(prod) ==
    LET text == HeurText002(prod)
    IN  IF RuleFootwear002(text) THEN Heur("footwear", 85, <<"keywords/talla footwear">>)
        ELSE IF Rule3d002(text) THEN Heur("3d_printing", 95, <<"material/keywords 3d">>)
        ELSE IF RuleApparel002(text) THEN Heur("apparel", 75, <<"keywords talla apparel">>)
        ELSE IF RuleElec002(text) THEN Heur("electronics", 70, <<"keywords electronics">>)
        ELSE IF RuleFood002(text) THEN Heur("food", 70, <<"keywords food">>)
        ELSE IF RuleService002(text) THEN Heur("service", 70, <<"keywords service">>)
        ELSE Generic002

\* heuristic_domain(prod) -> (domain, confidence, signals)
heuristic_domain(prod) ==
    LET text == HeurText002(prod)
    IN  IF Rule3d002(text) THEN Heur("3d_printing", 95, <<"material/keywords 3d">>)
        ELSE IF RuleFootwear002(text) THEN Heur("footwear", 85, <<"keywords/talla footwear">>)
        ELSE IF RuleApparel002(text) THEN Heur("apparel", 75, <<"keywords talla apparel">>)
        ELSE IF RuleElec002(text) THEN Heur("electronics", 70, <<"keywords electronics">>)
        ELSE IF RuleFood002(text) THEN Heur("food", 70, <<"keywords food">>)
        ELSE IF RuleService002(text) THEN Heur("service", 70, <<"keywords service">>)
        ELSE Generic002

\* norm_text(*parts): " ".join(p.strip().lower() for p in parts if p).strip()
norm_text(parts) ==
    Strip(Join([k \in 1..Len(SelectSeq(parts, LAMBDA x : x # <<>>)) |->
                   Lower(Strip(SelectSeq(parts, LAMBDA x : x # <<>>)[k]))], <<" ">>))

Blob003(product) ==
    norm_text(<< Get(product, "nombre", <<>>), Get(product, "descripcion", <<>>),
                 Get(product, "material", <<>>), Get(product, "categoria", <<>>) >>)

\* the rule predicates of detect_domain_heuristic, in source order
Rule3d003(product) ==
    LET blob == Blob003(product)
    IN  WordIn(blob, ReMaterial3d) \/ AnyIn(blob, Kw3dPhrases003)
RuleYarnFields003(product) ==
    \E k \in {"grosor", "metros", "lavado", "color"} : HasKey(product, k)
RuleYarnHints003(product) == AnyIn(Blob003(product), YARN_HINTS)
RuleFootwear003(product) == AnyIn(Blob003(product), FOOTWEAR_HINTS)

\* the None that detect_domain_heuristic returns when nothing matches
NoDomain == Heur("", 0, <<>>)

\* detect_domain_heuristic(product) -> domain_info (method heuristic) or None
detect_domain_heuristic(product) ==
    IF Rule3d003(product) THEN Heur("3d_printing", 95, <<"material/keywords 3d">>)
    ELSE IF RuleYarnFields003(product)
         THEN Heur("yarn_crafts", 95, <<"fields: grosor/metros/lavado/color">>)
    ELSE IF RuleYarnHints003(product) THEN Heur("yarn_crafts", 90, <<"keywords yarn/crafts">>)
    ELSE IF RuleFootwear003(product) THEN Heur("footwear", 85, <<"keywords footwear">>)
    ELSE NoDomain

(***************************************************************************)
(* Generation objects and enrichment results.                              *)
(* A parsed generation object is a sequence of <<key, value>> pairs with   *)
(* tagged values: "s" text, "l" list of tagged values, "n" number,         *)
(* "z" null.  A normaliser returns a result record whose status is "ok",   *)
(* "raise" (an exception left the function) or "hang" (it never returns).  *)
(***************************************************************************)
VStr(s) == [t |-> "s", v |-> s]
VList(xs) == [t |-> "l", v |-> xs]
VNull == [t |-> "z", v |-> <<>>]

\* dict.get(k) on a generation object: the value, or None
RawGet(raw, k) == Get(raw, k, VNull)

\* Python truth value
Truthy(x) == CASE x.t = "z" -> FALSE [] x.t = "n" -> x.v # 0 [] OTHER -> x.v # <<>>

IsStrV(x) == x.t = "s"
IsListV(x) == x.t = "l"

\* the text of a value known to be text or None (x or "")
TextOr(x, d) == IF x.t = "s" /\ x.v # <<>> THEN x.v ELSE d

MkRes(slug, sd, bl, tg, st, sdesc) ==
    [status |-> "ok", slug |-> slug, short_desc |-> sd, bullets |-> bl, tags |-> tg,
     seo_title |-> st, seo_description |-> sdesc, missing |-> {}]

RaisedRes == [status |-> "raise", slug |-> <<>>, short_desc |-> <<>>, bullets |-> <<>>,
              tags |-> <<>>, seo_title |-> <<>>, seo_description |-> <<>>, missing |-> {}]

HangRes == [status |-> "hang", slug |-> <<>>, short_desc |-> <<>>, bullets |-> <<>>,
            tags |-> <<>>, seo_title |-> <<>>, seo_description |-> <<>>, missing |-> {}]

RECURSIVE DigitsOf(_)
DigitsOf(n) == IF n < 10 THEN <<ToString(n)>> ELSE Append(DigitsOf(n \div 10), ToString(n % 10))

\* str(x) for a text, a non-negative number or None
PyStr(x) ==
    CASE x.t = "s" -> x.v
      [] x.t = "n" -> DigitsOf(x.v)
      [] OTHER -> <<"N", "o", "n", "e">>

\* str(x or d): a truthy value of any scalar type is kept and written out
PyOr(x, d) == IF Truthy(x) THEN PyStr(x) ELSE d

\* str(x or "")
PyStrOr(x) == IF Truthy(x) THEN PyStr(x) ELSE <<>>

AllText(xs) == \A k \in 1..Len(xs) : xs[k].t = "s"

MapSeq(xs, F(_)) == [k \in 1..Len(xs) |-> F(xs[k])]

(***************************************************************************)
(* v008: helpers, normalize_enrichment and fill_bullets_from_fields        *)
(***************************************************************************)
TxtItem == <<"i","t","e","m">>
TxtImpresion3D == <<"I","m","p","r","e","s","i","o'","n"," ","3","D"," ","p","r","e","c","i","s","a">>
TxtMaterialLbl == <<"M","a","t","e","r","i","a","l",":"," ">>
TxtCategoriaLbl == <<"C","a","t","e","g","o","r","i'","a",":"," ">>
TxtAutonomiaLbl == <<"A","u","t","o","n","o","m","i'","a",":"," ">>
TxtHoras == <<" ","h">>
TxtCapacidadLbl == <<"C","a","p","a","c","i","d","a","d",":"," ">>
TxtMah == <<" ","m","A","h">>
TxtConectividadLbl == <<"C","o","n","e","c","t","i","v","i","d","a","d",":"," ">>
TxtConexionLbl == <<"C","o","n","e","x","i","o'","n",":"," ">>
TxtListoParaUsar == <<"L","i","s","t","o"," ","p","a","r","a"," ","u","s","a","r">>
TxtDisenoFuncional == <<"D","i","s","e","n~","o"," ","f","u","n","c","i","o","n","a","l">>
Kw3dFill008 ==
    << <<"p","l","a">>,
       <<"p","e","t","g">>,
       <<"a","b","s">>,
       <<"a","s","a">>,
       <<"r","e","s","i","n","a">>,
       <<"i","m","p","r","e","s","o"," ","e","n"," ","3","d">>,
       <<"i","m","p","r","e","s","i","o","n"," ","3","d">>,
       <<"i","m","p","r","e","s","i","o'","n"," ","3","d">> >>

strip_accents(s) == MapStr(s, StripAccentCh)

\* re.sub(r"[^a-z0-9\s]", " ", s) applied to one character
PlainOrSpace(c) == IF c \in AsciiLower \cup Digits \/ IsSpaceCh(c) THEN c ELSE " "

norm_for_compare(s) ==
    Strip(CollapseSpaces(MapStr(Lower(strip_accents(s)), PlainOrSpace)))

IsSlugSep(c) == IsSpaceCh(c) \/ c \in {"_", "-"}

slugify008(s, maxlen) ==
    LET a == Lower(Strip(strip_accents(s)))
        b == SelectSeq(a, LAMBDA c : IsWordCh(c) \/ IsSpaceCh(c) \/ c = "-")
        c2 == StripCh(SubRuns(b, IsSlugSep, <<"-">>), "-")
    IN  Prefix(IF c2 = <<>> THEN TxtItem ELSE c2, maxlen)

IsTagSep(c) == IsSpaceCh(c) \/ c = "-"

snake_tag(s, maxlen) ==
    LET a == Lower(Strip(strip_accents(s)))
        b == SelectSeq(a, LAMBDA c : c \in AsciiLower \cup Digits \/ IsSpaceCh(c) \/ c = "-")
        c2 == StripCh(SubRuns(b, IsTagSep, <<"_">>), "_")
    IN  Prefix(c2, maxlen)

compact_whitespace(s) == CollapseSpaces(Strip(s))

\* add_if of fill_bullets_from_fields: one candidate offered to the list
add_if(bullets, text, target) ==
    LET t == compact_whitespace(text)
    IN  IF Len(bullets) >= target THEN bullets
        ELSE IF t = <<>> THEN bullets
        ELSE IF \E k \in 1..Len(bullets) : norm_for_compare(bullets[k]) = norm_for_compare(t)
             THEN bullets
        ELSE Append(bullets, t)

RECURSIVE AddAll(_, _, _)
AddAll(bullets, cands, target) ==
    IF cands = <<>> THEN bullets
    ELSE AddAll(add_if(bullets, Head(cands), target), Tail(cands), target)

\* the candidates fill_bullets_from_fields offers, in source order
FillCandidates(product) ==
    LET nombre == Lower(Get(product, "nombre", <<>>))
        desc == Lower(Get(product, "descripcion", <<>>))
        material == Strip(Get(product, "material", <<>>))
        categoria == Strip(Get(product, "categoria", <<>>))
        hay == Lower(material) \o <<" ">> \o desc \o <<" ">> \o nombre
        Field(k) == Get(product, k, <<>>)
    IN  (IF AnyIn(hay, Kw3dFill008) THEN <<TxtImpresion3D>> ELSE <<>>)
        \o (IF material # <<>> THEN <<TxtMaterialLbl \o material>> ELSE <<>>)
        \o (IF categoria # <<>> THEN <<TxtCategoriaLbl \o categoria>> ELSE <<>>)
        \o (IF Strip(Field("bateria_horas")) # <<>>
            THEN <<TxtAutonomiaLbl \o Field("bateria_horas") \o TxtHoras>> ELSE <<>>)
        \o (IF Strip(Field("capacidad_mah")) # <<>>
            THEN <<TxtCapacidadLbl \o Field("capacidad_mah") \o TxtMah>> ELSE <<>>)
        \o (IF Strip(Field("conectividad")) # <<>>
            THEN <<TxtConectividadLbl \o Field("conectividad")>> ELSE <<>>)
        \o (IF Strip(Field("conexion")) # <<>>
            THEN <<TxtConexionLbl \o Field("conexion")>> ELSE <<>>)
        \o <<TxtListoParaUsar, TxtDisenoFuncional>>

fill_bullets_from_fields(product, current, target) ==
    Prefix(AddAll(current, FillCandidates(product), target), target)

\* is_redundant of normalize_enrichment
is_redundant(b, short_desc, desc_src) ==
    LET bn == norm_for_compare(b)
        sn == norm_for_compare(short_desc)
        dn == norm_for_compare(desc_src)
    IN  \/ bn = <<>>
        \/ sn # <<>> /\ Contains(sn, bn)
        \/ dn # <<>> /\ Contains(dn, bn)

\* the dedupe loop of normalize_enrichment
RECURSIVE DedupBullets008(_, _, _, _, _)
DedupBullets008(bullets, seen, acc, short_desc, desc_src) ==
    IF bullets = <<>> THEN acc
    ELSE LET b == Head(bullets)
             bn == norm_for_compare(b)
         IN  IF bn = <<>> \/ bn \in seen \/ is_redundant(b, short_desc, desc_src)
             THEN DedupBullets008(Tail(bullets), seen, acc, short_desc, desc_src)
             ELSE DedupBullets008(Tail(bullets), seen \cup {bn}, Append(acc, b),
                                  short_desc, desc_src)

\* the text items of enrich["bullets"], compacted, empty ones dropped
RawBullets008(enrich) ==
    LET x == RawGet(enrich, "bullets")
    IN  IF IsListV(x)
        THEN SelectSeq(MapSeq(x.v, LAMBDA b : compact_whitespace(PyStrOr(b))),
                       LAMBDA b : b # <<>>)
        ELSE <<>>

RawTags008(enrich) ==
    LET x == RawGet(enrich, "tags")
    IN  IF IsListV(x)
        THEN SelectSeq(MapSeq(x.v, LAMBDA t : snake_tag(PyStr(t), 32)), LAMBDA t : t # <<>>)
        ELSE <<>>

\* the tags derived from categoria, material, marca, modelo
FieldTags008(product) ==
    SelectSeq(MapSeq(<<"categoria", "material", "marca", "modelo">>,
                     LAMBDA k : snake_tag(Get(product, k, <<>>), 32)),
              LAMBDA t : t # <<>>)

normalize_enrichment(product, enrich) ==
    LET nombre == Strip(Get(product, "nombre", <<>>))
        marca == Strip(Get(product, "marca", <<>>))
        desc_src == Strip(Get(product, "descripcion", <<>>))
        slug == slugify008(PyOr(RawGet(enrich, "slug"),
                                  nombre \o (IF marca # <<>> THEN <<" ">> \o marca ELSE <<>>)), 80)
        sd0 == compact_whitespace(PyOr(RawGet(enrich, "short_desc"), <<>>))
        short_desc == IF sd0 # <<>> THEN sd0
                      ELSE IF compact_whitespace(desc_src) # <<>> THEN compact_whitespace(desc_src)
                      ELSE nombre
        dedup == DedupBullets008(RawBullets008(enrich), {}, <<>>, short_desc, desc_src)
        b3 == Prefix(dedup, 3)
        bullets == IF Len(b3) < 3 THEN fill_bullets_from_fields(product, b3, 3) ELSE b3
        tags == Prefix(Dedupe(RawTags008(enrich) \o FieldTags008(product)), 10)
        st0 == compact_whitespace(PyOr(RawGet(enrich, "seo_title"), <<>>))
        seo_title == Prefix(IF st0 # <<>> THEN st0
                            ELSE IF marca # <<>> THEN Strip(nombre \o <<" ">> \o marca)
                            ELSE nombre, 60)
        sx0 == compact_whitespace(PyOr(RawGet(enrich, "seo_description"), <<>>))
        seo_desc == Prefix(IF sx0 # <<>> THEN sx0
                           ELSE IF desc_src # <<>> THEN desc_src
                           ELSE IF short_desc # <<>> THEN short_desc
                           ELSE nombre, 160)
    IN  MkRes(slug, short_desc, Prefix(bullets, 3), tags, seo_title, seo_desc)

(***************************************************************************)
(* final version: helpers and normalize_output                             *)
(***************************************************************************)
TxtProducto == <<"p","r","o","d","u","c","t","o">>
TxtTag == <<"t","a","g">>

IsKebabKept(c) == c \in AsciiLower \cup Digits \/ IsSpaceCh(c) \/ c \in {"_", "-"}

to_kebab_case(s) ==
    LET a == strip_accents(Lower(Strip(s)))
        b == SelectSeq(a, IsKebabKept)
        c2 == MapStr(b, LAMBDA c : IF c = "_" THEN " " ELSE c)
        d == SubRuns(Strip(c2), IsSpaceCh, <<"-">>)
        e == SubRuns(d, LAMBDA c : c = "-", <<"-">>)
    IN  IF e = <<>> THEN TxtProducto ELSE e

to_snake_case(s) ==
    LET a == strip_accents(Lower(Strip(s)))
        b == SelectSeq(a, IsKebabKept)
        c2 == MapStr(b, LAMBDA c : IF c = "-" THEN " " ELSE c)
        d == SubRuns(Strip(c2), IsSpaceCh, <<"_">>)
        e == SubRuns(d, LAMBDA c : c = "_", <<"_">>)
    IN  IF e = <<>> THEN TxtTag ELSE e

clamp_len(s, max_len) ==
    LET a == Strip(s)
    IN  IF Len(a) <= max_len THEN a ELSE RStrip(SubSeq(a, 1, max_len))

clamp_words(s, max_w) == Join(Prefix(Words(Strip(s)), max_w), <<" ">>)

\* (raw.get(k) or "").strip() raises AttributeError on a truthy non-text value
BadText(raw, k) == Truthy(RawGet(raw, k)) /\ ~IsStrV(RawGet(raw, k))

normalize_output(raw, product) ==
    LET nombre == Strip(Get(product, "nombre", <<>>))
        marca == Strip(Get(product, "marca", <<>>))
        slug0 == Strip(TextOr(RawGet(raw, "slug"), <<>>))
        slug == IF slug0 = <<>>
                THEN to_kebab_case(IF marca # <<>> THEN Strip(nombre \o <<" ">> \o marca)
                                   ELSE nombre)
                ELSE to_kebab_case(slug0)
        short_desc == Strip(TextOr(RawGet(raw, "short_desc"), <<>>))
        braw == IF IsListV(RawGet(raw, "bullets")) THEN RawGet(raw, "bullets").v ELSE <<>>
        b1 == SelectSeq(MapSeq(braw, LAMBDA x : Strip(PyStr(x))), LAMBDA b : b # <<>>)
        b2 == SubSeq(b1 \o << <<>>, <<>>, <<>> >>, 1, 3)
        bullets == MapSeq(b2, LAMBDA b : clamp_words(b, 6))
        traw == IF IsListV(RawGet(raw, "tags")) THEN RawGet(raw, "tags").v ELSE <<>>
        tags == MapSeq(SelectSeq(MapSeq(traw, PyStr), LAMBDA x : Strip(x) # <<>>), to_snake_case)
        safe_tags == MapSeq(SelectSeq(<<"categoria", "marca", "material">>,
                                      LAMBDA k : Get(product, k, <<>>) # <<>>),
                            LAMBDA k : to_snake_case(Get(product, k, <<>>)))
        all_tags == Prefix(Dedupe(SelectSeq(tags \o safe_tags, LAMBDA x : x # <<>>)), 10)
        seo_title == clamp_len(Strip(TextOr(RawGet(raw, "seo_title"), <<>>)), 60)
        seo_description == clamp_len(Strip(TextOr(RawGet(raw, "seo_description"), <<>>)), 160)
    IN  IF \E k \in {"slug", "short_desc", "seo_title", "seo_description"} : BadText(raw, k)
        THEN RaisedRes
        ELSE MkRes(slug, short_desc, bullets, all_tags, seo_title, seo_description)

(***************************************************************************)
(* v007: helpers                                                           *)
(***************************************************************************)
FallbackPool007 ==
    << <<"D","i","s","e","n~","o"," ","p","e","n","s","a","d","o"," ","p","a","r","a"," ","u","s","o"," ","d","i","a","r","i","o">>,
       <<"I","d","e","a","l"," ","p","a","r","a"," ","r","e","g","a","l","o"," ","o"," ","e","s","c","r","i","t","o","r","i","o">>,
       <<"A","c","a","b","a","d","o"," ","l","i","m","p","i","o"," ","y"," ","e","l","e","g","a","n","t","e">>,
       <<"F","a'","c","i","l"," ","d","e"," ","u","s","a","r"," ","y"," ","m","a","n","t","e","n","e","r">>,
       <<"L","i","s","t","o"," ","p","a","r","a"," ","t","u"," ","s","e","t","u","p"," ","o"," ","c","a","s","a">> >>
LabelPrefixes007 ==
    << <<"m","a","t","e","r","i","a","l">>,
       <<"t","a","m","a","n~","o">>,
       <<"t","a","m","a","n","o">>,
       <<"c","a","t","e","g","o","r","i'","a">>,
       <<"c","a","t","e","g","o","r","i","a">>,
       <<"p","r","e","c","i","o">>,
       <<"m","a","r","c","a">>,
       <<"m","o","d","e","l","o">> >>
TxtDescubre == <<"."," ","D","e","s","c","u","b","r","e"," ","m","a'","s"," ","d","e","t","a","l","l","e","s"," ","e","n"," ","l","a"," ","f","i","c","h","a",".">>

slugify007(s, maxlen) ==
    LET a == MapStr(Lower(Strip(s)), StripAccentCh)
        b == SelectSeq(a, LAMBDA c : IsWordCh(c) \/ IsSpaceCh(c) \/ c = "-")
        c2 == StripCh(SubRuns(b, IsSlugSep, <<"-">>), "-")
    IN  Prefix(IF c2 = <<>> THEN TxtItem ELSE c2, maxlen)

_norm(s) == CollapseSpaces(Lower(Strip(s)))

\* length of the common run of a from i and b from j, inside the windows
RECURSIVE MatchLen(_, _, _, _, _, _)
MatchLen(a, i, ahi, b, j, bhi) ==
    IF i > ahi \/ j > bhi THEN 0
    ELSE IF a[i] # b[j] THEN 0
    ELSE 1 + MatchLen(a, i + 1, ahi, b, j + 1, bhi)

\* SequenceMatcher.find_longest_match: longest block, earliest in a, then in b
find_longest_match(a, alo, ahi, b, blo, bhi) ==
    LET lens == [ij \in (alo..ahi) \X (blo..bhi) |-> MatchLen(a, ij[1], ahi, b, ij[2], bhi)]
        k == CHOOSE m \in {lens[ij] : ij \in DOMAIN lens} :
                 \A ij \in DOMAIN lens : lens[ij] <= m
        i == CHOOSE x \in alo..ahi :
                 /\ \E y \in blo..bhi : lens[<<x, y>>] = k
                 /\ \A x2 \in alo..(x - 1) : \A y \in blo..bhi : lens[<<x2, y>>] # k
        j == CHOOSE y \in blo..bhi :
                 /\ lens[<<i, y>>] = k
                 /\ \A y2 \in blo..(y - 1) : lens[<<i, y2>>] # k
    IN  <<i, j, k>>

\* total size of SequenceMatcher.get_matching_blocks
RECURSIVE Matches(_, _, _, _, _, _)
Matches(a, alo, ahi, b, blo, bhi) ==
    IF alo > ahi \/ blo > bhi THEN 0
    ELSE LET m == find_longest_match(a, alo, ahi, b, blo, bhi)
         IN  IF m[3] = 0 THEN 0
             ELSE m[3] + Matches(a, alo, m[1] - 1, b, blo, m[2] - 1)
                       + Matches(a, m[1] + m[3], ahi, b, m[2] + m[3], bhi)

\* _sim(a, b) >= num/den, with ratio = 2*M/T computed exactly
SimAtLeast(a, b, num, den) ==
    LET x == _norm(a)
        y == _norm(b)
    IN  /\ x # <<>>
        /\ y # <<>>
        /\ 2 * Matches(x, 1, Len(x), y, 1, Len(y)) * den >= num * (Len(x) + Len(y))

RECURSIVE DedupeNearAcc(_, _, _, _)
DedupeNearAcc(items, out, num, den) ==
    IF items = <<>> THEN out
    ELSE LET it == Strip(Head(items))
         IN  IF it = <<>> \/ \E k \in 1..Len(out) : SimAtLeast(it, out[k], num, den)
             THEN DedupeNearAcc(Tail(items), out, num, den)
             ELSE DedupeNearAcc(Tail(items), Append(out, it), num, den)

dedupe_near(items, num, den) == DedupeNearAcc(items, <<>>, num, den)

\* last position of a space in s, 0 when there is none (rfind + 1)
LastSpace(s) ==
    IF \E k \in 1..Len(s) : s[k] = " "
    THEN CHOOSE k \in 1..Len(s) : s[k] = " " /\ \A m \in (k + 1)..Len(s) : s[m] # " "
    ELSE 0

cut_smart(text, limit) ==
    LET t == Strip(text)
        cut == RStrip(Prefix(t, limit))
        pos == LastSpace(cut) - 1
        floor == IF limit - 20 > 10 THEN limit - 20 ELSE 10
    IN  IF Len(t) <= limit THEN t
        ELSE IF pos >= floor THEN RStrip(Prefix(cut, pos))
        ELSE cut

to_snake_tag(t) ==
    LET a == MapStr(slugify007(t, 40), LAMBDA c : IF c = "-" THEN "_" ELSE c)
    IN  StripCh(SubRuns(a, LAMBDA c : c = "_", <<"_">>), "_")

RECURSIVE UniqueAcc(_, _, _)
UniqueAcc(items, seen, out) ==
    IF items = <<>> THEN out
    ELSE LET k == _norm(Head(items))
         IN  IF k = <<>> \/ k \in seen THEN UniqueAcc(Tail(items), seen, out)
             ELSE UniqueAcc(Tail(items), seen \cup {k}, Append(out, Head(items)))

unique_case_insensitive(items) == UniqueAcc(items, {}, <<>>)

TxtProductoCap == <<"P","r","o","d","u","c","t","o">>
(***************************************************************************)
(* v007: normalize_enriched and fallback_enrich                            *)
(***************************************************************************)
\* str(enriched.get(k, "")): the default applies only when the key is absent
StrGet(raw, k) == IF HasKey(raw, k) THEN PyStr(RawGet(raw, k)) ELSE <<>>

\* re.sub(r"^(material|...)\s*:\s*", "", s, flags=IGNORECASE): first alternative that matches
RECURSIVE StripLabel(_, _)
StripLabel(s, labels) ==
    IF labels = <<>> THEN s
    ELSE LET rest == SubSeq(s, Len(Head(labels)) + 1, Len(s))
             r2 == LStrip(rest)
         IN  IF StartsWith(Lower(s), Head(labels)) /\ r2 # <<>> /\ Head(r2) = ":"
             THEN LStrip(Tail(r2))
             ELSE StripLabel(s, Tail(labels))

\* the loop that brings the bullets up to three
RECURSIVE PadBullets007(_)
PadBullets007(bullets) ==
    IF Len(bullets) >= 3 THEN bullets
    ELSE LET cand == FallbackPool007[(Len(bullets) % Len(FallbackPool007)) + 1]
         IN  IF ~(\E k \in 1..Len(bullets) : SimAtLeast(cand, bullets[k], 90, 100))
             THEN PadBullets007(Append(bullets, cand))
             ELSE PadBullets007(Append(bullets, TxtListoParaUsar))

\* the loop that brings the tags up to six: an iteration that leaves the
\* list as it found it repeats for ever
RECURSIVE PadTags007(_, _)
PadTags007(tags, withBreak) ==
    IF Len(tags) >= 6 THEN [hang |-> FALSE, tags |-> tags]
    ELSE LET t2 == unique_case_insensitive(Append(tags, TxtProducto))
         IN  IF withBreak /\ Len(t2) > 20 THEN [hang |-> FALSE, tags |-> t2]
             ELSE IF t2 = tags THEN [hang |-> TRUE, tags |-> tags]
             ELSE PadTags007(t2, withBreak)

ExtraTags007(product) ==
    unique_case_insensitive(
        MapSeq(SelectSeq(<<"categoria", "material", "tamano", "taman~o", "marca", "modelo">>,
                         LAMBDA k : Strip(Get(product, k, <<>>)) # <<>>),
               LAMBDA k : to_snake_tag(Strip(Get(product, k, <<>>)))))

OrText(a, b) == IF a # <<>> THEN a ELSE b

normalize_enriched007(enriched, product) ==
    LET nombre == Strip(Get(product, "nombre", TxtProductoCap))
        desc == Strip(Get(product, "descripcion", <<>>))
        marca == Strip(Get(product, "marca", <<>>))
        slug0 == Strip(StrGet(enriched, "slug"))
        slug == IF slug0 = <<>> THEN slugify007(Strip(nombre \o <<" ">> \o marca), 80)
                ELSE slugify007(slug0, 80)
        sd0 == OrText(Strip(StrGet(enriched, "short_desc")), OrText(desc, nombre))
        short_desc == cut_smart(Strip(StripLabel(sd0, LabelPrefixes007)), 140)
        braw == IF HasKey(enriched, "bullets") /\ IsListV(RawGet(enriched, "bullets"))
                THEN RawGet(enriched, "bullets").v ELSE <<>>
        b1 == SelectSeq(MapSeq(braw, LAMBDA x : Strip(PyStr(x))), LAMBDA b : b # <<>>)
        b2 == MapSeq(b1, LAMBDA b : Strip(SelectSeq(b, LAMBDA c : c # ":")))
        b3 == dedupe_near(b2, 90, 100)
        b4 == SelectSeq(b3, LAMBDA b : ~SimAtLeast(b, short_desc, 82, 100))
        bullets == Prefix(PadBullets007(b4), 3)
        traw == IF HasKey(enriched, "tags") /\ IsListV(RawGet(enriched, "tags"))
                THEN RawGet(enriched, "tags").v ELSE <<>>
        t1 == unique_case_insensitive(
                  MapSeq(SelectSeq(MapSeq(traw, PyStr), LAMBDA x : Strip(x) # <<>>), to_snake_tag))
        t2 == unique_case_insensitive(t1 \o ExtraTags007(product))
        padded == PadTags007(t2, TRUE)
        seo_title == cut_smart(OrText(Strip(StrGet(enriched, "seo_title")), nombre), 60)
        sx0 == OrText(Strip(StrGet(enriched, "seo_description")),
                      OrText(desc, OrText(short_desc, nombre)))
        sx1 == IF _norm(sx0) = _norm(short_desc)
               THEN OrText(Strip(desc), short_desc \o TxtDescubre)
               ELSE sx0
        seo_description == cut_smart(sx1, 160)
    IN  IF padded.hang THEN HangRes
        ELSE MkRes(slug, short_desc, bullets, Prefix(padded.tags, 10), seo_title, seo_description)

fallback_enrich007(product) ==
    LET nombre == Strip(Get(product, "nombre", TxtProductoCap))
        desc == Strip(Get(product, "descripcion", <<>>))
        marca == Strip(Get(product, "marca", <<>>))
        short_desc == cut_smart(OrText(desc, nombre), 140)
        padded == PadTags007(ExtraTags007(product), FALSE)
    IN  IF padded.hang THEN HangRes
        ELSE MkRes(slugify007(Strip(nombre \o <<" ">> \o marca), 80), short_desc,
                   SubSeq(FallbackPool007, 1, 3), Prefix(padded.tags, 10),
                   cut_smart(nombre, 60),
                   cut_smart(OrText(desc, OrText(short_desc, nombre)), 160))

(***************************************************************************)
(* v002: slugify_ascii, fallback_enrich and normalize_enriched             *)
(* (the faq field of the v002 result is left out of the model)             *)
(***************************************************************************)
MAX_BULLETS == 5

MAX_TAGS == 10

TxtIdealPara == <<"I","d","e","a","l"," ","p","a","r","a"," ">>
TxtFabricadoEn == <<"F","a","b","r","i","c","a","d","o"," ","e","n"," ">>
TxtTamanoLbl == <<"T","a","m","a","n~","o",":"," ">>
TxtDisenoPractico == <<"D","i","s","e","n~","o"," ","p","r","a'","c","t","i","c","o"," ","p","a","r","a"," ","e","s","c","r","i","t","o","r","i","o"," ","y"," ","o","r","g","a","n","i","z","a","c","i","o'","n",".">>
TxtTallasLbl == <<"T","a","l","l","a","s"," ","d","i","s","p","o","n","i","b","l","e","s",":"," ">>
TxtColorLbl == <<"C","o","l","o","r",":"," ">>
TxtPensado == <<"P","e","n","s","a","d","o"," ","p","a","r","a"," ","c","o","m","o","d","i","d","a","d"," ","y"," ","u","s","o"," ","d","i","a","r","i","o",".">>
TxtMarcaLbl == <<"M","a","r","c","a",":"," ">>
TxtProductoPensado == <<"P","r","o","d","u","c","t","o"," ","p","e","n","s","a","d","o"," ","p","a","r","a"," ","u","n"," ","u","s","o"," ","p","r","a'","c","t","i","c","o"," ","y"," ","c","l","a","r","o",".">>
TxtBuenaOpcion == <<"B","u","e","n","a"," ","o","p","c","i","o'","n"," ","p","a","r","a"," ","u","s","o"," ","c","o","t","i","d","i","a","n","o",".">>
TxtEllipsis == <<".",".",".">>
DefaultTags002 ==
    << <<"c","a","t","a","l","o","g","o">>,
       <<"p","r","o","d","u","c","t","o">>,
       <<"o","f","e","r","t","a">>,
       <<"r","e","c","o","m","e","n","d","a","d","o">> >>

slugify_ascii(s, maxlen) ==
    LET a == MapStr(Lower(Strip(s)), StripAccentCh)
        b == SelectSeq(a, LAMBDA c : c \in AsciiLower \cup Digits \/ IsSpaceCh(c) \/ c = "-")
        c2 == StripCh(SubRuns(b, IsSlugSep, <<"-">>), "-")
    IN  Prefix(IF c2 = <<>> THEN TxtProducto ELSE c2, maxlen)

\* prod.get(a, "") or prod.get(b, "") or ""
Either(prod, a, b) == OrText(Get(prod, a, <<>>), Get(prod, b, <<>>))

Shorten140(desc) ==
    IF Len(desc) <= 140 THEN desc ELSE RStrip(SubSeq(desc, 1, 137)) \o TxtEllipsis

RECURSIVE PadTo3(_)
PadTo3(bullets) == IF Len(bullets) >= 3 THEN bullets ELSE PadTo3(Append(bullets, TxtBuenaOpcion))

FallbackBullets002(prod, domain) ==
    LET categoria == Either(prod, "categoria", "category")
        material == Get(prod, "material", <<>>)
        tamano == Either(prod, "tamano", "size")
        talla == Either(prod, "talla", "numero")
        color == Get(prod, "color", <<>>)
        marca == Get(prod, "marca", <<>>)
        Opt(v, pre) == IF v # <<>> THEN <<pre \o v \o <<".">>>> ELSE <<>>
        first == IF categoria # <<>> THEN <<TxtIdealPara \o Lower(categoria) \o <<".">>>> ELSE <<>>
        rest == CASE domain = "3d_printing" ->
                       Opt(material, TxtFabricadoEn) \o Opt(tamano, TxtTamanoLbl)
                       \o <<TxtDisenoPractico>>
                  [] domain = "footwear" ->
                       Opt(talla, TxtTallasLbl) \o Opt(color, TxtColorLbl) \o <<TxtPensado>>
                  [] OTHER ->
                       Opt(marca, TxtMarcaLbl) \o Opt(material, TxtMaterialLbl)
                       \o <<TxtProductoPensado>>
    IN  Dedupe(Prefix(PadTo3(first \o rest), MAX_BULLETS))

DomainChars ==
    [d \in {"3d_printing", "footwear", "apparel", "electronics", "food", "service", "generic", "yarn_crafts", ""} |->
        CASE d = "3d_printing" -> <<"3","d","_","p","r","i","n","t","i","n","g">>
          [] d = "footwear" -> <<"f","o","o","t","w","e","a","r">>
          [] d = "apparel" -> <<"a","p","p","a","r","e","l">>
          [] d = "electronics" -> <<"e","l","e","c","t","r","o","n","i","c","s">>
          [] d = "food" -> <<"f","o","o","d">>
          [] d = "service" -> <<"s","e","r","v","i","c","e">>
          [] d = "generic" -> <<"g","e","n","e","r","i","c">>
          [] d = "yarn_crafts" -> <<"y","a","r","n","_","c","r","a","f","t","s">>
          [] OTHER -> <<>>]

\* the domain name as text
DomainText(domain) == [k \in 1..Len(DomainChars[domain]) |-> DomainChars[domain][k]]

FallbackTags002(prod, domain) ==
    LET vals == <<Either(prod, "categoria", "category"), Get(prod, "material", <<>>),
                  Either(prod, "tamano", "size"), Either(prod, "talla", "numero"),
                  Get(prod, "color", <<>>), Get(prod, "marca", <<>>)>>
        t1 == MapSeq(SelectSeq(MapSeq(vals, LAMBDA v : Lower(Strip(v))), LAMBDA v : v # <<>>),
                     LAMBDA v : slugify_ascii(v, 40))
        t2 == Prefix(Dedupe(Append(t1, DomainText(domain))), MAX_TAGS)
    IN  IF Len(t2) < 5 THEN Prefix(Dedupe(t2 \o DefaultTags002), MAX_TAGS) ELSE t2

fallback_enrich002(prod, domain) ==
    LET nombre == OrText(Get(prod, "nombre", <<>>), TxtProductoCap)
        desc == Get(prod, "descripcion", <<>>)
        short_desc == Shorten140(desc)
    IN  MkRes(slugify_ascii(nombre, 70), short_desc, FallbackBullets002(prod, domain),
              FallbackTags002(prod, domain), Prefix(nombre, 60),
              Prefix(OrText(short_desc, nombre), 155))

\* safe_text(x) = (x or "").strip() raises on a truthy value that is not text
BadItems(xs) == \E k \in 1..Len(xs) : Truthy(xs[k]) /\ ~IsStrV(xs[k])

normalize_enriched002(prod, domain, enriched) ==
    LET nombre == OrText(Get(prod, "nombre", <<>>), TxtProductoCap)
        slug == slugify_ascii(OrText(Strip(TextOr(RawGet(enriched, "slug"), <<>>)),
                                     slugify_ascii(nombre, 70)), 70)
        sd0 == OrText(Strip(TextOr(RawGet(enriched, "short_desc"), <<>>)),
                      Prefix(Strip(Get(prod, "descripcion", <<>>)), 140))
        short_desc == Shorten140(sd0)
        braw == IF IsListV(RawGet(enriched, "bullets")) THEN RawGet(enriched, "bullets").v ELSE <<>>
        b1 == Prefix(SelectSeq(MapSeq(braw, LAMBDA x : Strip(TextOr(x, <<>>))),
                               LAMBDA b : b # <<>>), MAX_BULLETS)
        bullets == IF Len(b1) < 3
                   THEN Dedupe(Prefix(b1 \o FallbackBullets002(prod, domain), MAX_BULLETS))
                   ELSE b1
        traw == IF IsListV(RawGet(enriched, "tags")) THEN RawGet(enriched, "tags").v ELSE <<>>
        t1 == MapSeq(SelectSeq(MapSeq(traw, LAMBDA x : Strip(TextOr(x, <<>>))),
                               LAMBDA x : x # <<>>),
                     LAMBDA x : slugify_ascii(x, 40))
        base_tags == MapSeq(SelectSeq(MapSeq(<<"categoria", "material", "tamano", "talla",
                                               "numero", "color", "marca">>,
                                             LAMBDA k : Lower(Strip(Get(prod, k, <<>>)))),
                                      LAMBDA v : v # <<>>),
                            LAMBDA v : slugify_ascii(v, 40))
        t2 == Prefix(Dedupe(base_tags \o t1 \o <<DomainText(domain)>>), MAX_TAGS)
        tags == IF Len(t2) < 5 THEN Prefix(Dedupe(t2 \o FallbackTags002(prod, domain)), MAX_TAGS)
                ELSE t2
        seo_title == Prefix(OrText(Strip(TextOr(RawGet(enriched, "seo_title"), <<>>)), nombre), 60)
        seo_description == Prefix(OrText(Strip(TextOr(RawGet(enriched, "seo_description"), <<>>)),
                                         short_desc), 155)
    IN  IF \/ \E k \in {"slug", "short_desc", "seo_title", "seo_description"} : BadText(enriched, k)
           \/ BadItems(braw) \/ BadItems(traw)
        THEN RaisedRes
        ELSE MkRes(slug, short_desc, bullets, tags, seo_title, seo_description)

(***************************************************************************)
(* v003: slugify, the minimal normalisation of ollama_enrich, fallback     *)
(* (the faq field of the v003 result is left out of the model; a key the   *)
(* generation lacks stays absent from the result and is listed in          *)
(* "missing")                                                              *)
(***************************************************************************)
TxtGrosorLbl == <<"G","r","o","s","o","r",":"," ">>
TxtMetrajeLbl == <<"M","e","t","r","a","j","e"," ","a","p","r","o","x",".",":"," ">>
TxtMetrosEnd == <<" ","m",".">>
TxtCuidadoLbl == <<"C","u","i","d","a","d","o",":"," ">>
TxtLavado == <<"l","a","v","a","d","o">>
TxtIdealPunto == <<"I","d","e","a","l"," ","p","a","r","a"," ","p","r","o","y","e","c","t","o","s"," ","d","e"," ","p","u","n","t","o"," ","y"," ","c","r","o","c","h","e","t",".">>
TxtPieza3D == <<"P","i","e","z","a"," ","p","e","n","s","a","d","a"," ","p","a","r","a"," ","i","m","p","r","e","s","i","o'","n"," ","3","D",".">>
TxtND == <<"N","/","D">>
TxtListoCatalogo == <<"P","r","o","d","u","c","t","o"," ","l","i","s","t","o"," ","p","a","r","a"," ","c","a","t","a'","l","o","g","o",".">>
TxtCatalogo == <<"c","a","t","a","l","o","g","o">>
Txt3dPrinting == <<"3","d","_","p","r","i","n","t","i","n","g">>

slugify003(s, maxlen) ==
    LET a == Lower(Strip(s))
        b == SelectSeq(a, LAMBDA c : IsWordCh(c) \/ IsSpaceCh(c) \/ c = "-")
        c2 == StripCh(SubRuns(b, IsSlugSep, <<"-">>), "-")
    IN  Prefix(IF c2 = <<>> THEN TxtItem ELSE c2, maxlen)

\* the part of ollama_enrich that follows json.loads
MinimalNormalize003(data, product) ==
    LET slug == slugify003(OrText(TextOr(RawGet(data, "slug"), <<>>),
                                  OrText(Get(product, "nombre", <<>>), TxtItem)), 80)
        braw == IF IsListV(RawGet(data, "bullets")) THEN RawGet(data, "bullets").v ELSE <<>>
        bullets == Prefix(MapSeq(braw, LAMBDA x : Strip(PyStr(x))), 3)
        traw == IF IsListV(RawGet(data, "tags")) THEN RawGet(data, "tags").v ELSE <<>>
        tags == Prefix(MapSeq(traw, LAMBDA x : MapStr(slugify003(PyStr(x), 40),
                                                      LAMBDA c : IF c = "-" THEN "_" ELSE c)), 10)
    IN  IF BadText(data, "slug") THEN RaisedRes
        ELSE [MkRes(slug, TextOr(RawGet(data, "short_desc"), <<>>), bullets, tags,
                    TextOr(RawGet(data, "seo_title"), <<>>),
                    TextOr(RawGet(data, "seo_description"), <<>>))
              EXCEPT !.missing = {k \in {"short_desc", "seo_title", "seo_description"} :
                                    ~HasKey(data, k)}]

RECURSIVE PadYarn(_)
PadYarn(bullets) == IF Len(bullets) >= 3 THEN bullets ELSE PadYarn(Append(bullets, TxtIdealPunto))

fallback_enrich003(product, domain) ==
    LET F(k) == Strip(Get(product, k, <<>>))
        nombre == F("nombre")
        desc == F("descripcion")
        categoria == F("categoria")
        material == F("material")
        Opt(v, x) == IF v # <<>> THEN <<x>> ELSE <<>>
        yb == PadYarn(Opt(F("grosor"), TxtGrosorLbl \o F("grosor") \o <<".">>)
                      \o Opt(F("metros"), TxtMetrajeLbl \o F("metros") \o TxtMetrosEnd)
                      \o Opt(F("lavado"), TxtCuidadoLbl \o F("lavado") \o <<".">>))
        yt == Opt(F("grosor"), slugify003(F("grosor"), 30))
              \o Opt(F("metros"), slugify003(F("metros") \o <<"m">>, 30))
              \o Opt(F("lavado"), TxtLavado)
              \o Opt(F("color"), slugify003(F("color"), 30))
              \o Opt(material, slugify003(material, 30))
              \o Opt(categoria, slugify003(categoria, 30))
        pb == <<TxtPieza3D, TxtMaterialLbl \o OrText(material, TxtND) \o <<".">>,
                TxtTamanoLbl \o OrText(F("tamano"), TxtND) \o <<".">>>>
        pt == Opt(categoria, slugify003(categoria, 30)) \o Opt(material, slugify003(material, 30))
              \o Opt(F("tamano"), slugify003(F("tamano"), 30)) \o <<Txt3dPrinting>>
        gb == <<TxtListoCatalogo, TxtCategoriaLbl \o OrText(categoria, TxtND) \o <<".">>,
                TxtMaterialLbl \o OrText(material, TxtND) \o <<".">>>>
        gt0 == Opt(categoria, slugify003(categoria, 30)) \o Opt(material, slugify003(material, 30))
        gt == IF gt0 = <<>> THEN <<TxtCatalogo>> ELSE gt0
        bullets == CASE domain = "yarn_crafts" -> yb [] domain = "3d_printing" -> pb [] OTHER -> gb
        tags == CASE domain = "yarn_crafts" -> yt [] domain = "3d_printing" -> pt [] OTHER -> gt
        short_desc == IF desc # <<>> THEN desc ELSE nombre \o <<" ", "(">> \o categoria \o <<")">>
    IN  MkRes(slugify003(nombre, 80), short_desc, Prefix(bullets, 3), Prefix(Dedupe(tags), 10),
              Prefix(nombre, 60), Prefix(OrText(desc, short_desc), 160))

(***************************************************************************)
(* Configuration as written in each script.                                *)
(***************************************************************************)
DefaultCfg(ver) ==
    CASE ver = "v002" -> [enabled |-> TRUE, model |-> "qwen2.5-coder:7b", temp |-> 20,
                          npred |-> 320, fmt |-> FALSE, rules |-> 0]
      [] ver = "v003" -> [enabled |-> TRUE, model |-> "mistral:instruct", temp |-> 20,
                          npred |-> 220, fmt |-> FALSE, rules |-> 2]
      [] ver = "v004" -> [enabled |-> TRUE, model |-> "qwen2.5-coder:7b", temp |-> 20,
                          npred |-> 220, fmt |-> TRUE, rules |-> 1]
      [] ver = "v007" -> [enabled |-> TRUE, model |-> "qwen2.5-coder:7b", temp |-> 20,
                          npred |-> 220, fmt |-> TRUE, rules |-> 3]
      [] ver = "v008" -> [enabled |-> TRUE, model |-> "qwen2.5-coder:7b", temp |-> 20,
                          npred |-> 260, fmt |-> TRUE, rules |-> 3]
      [] OTHER -> [enabled |-> TRUE, model |-> "llama3.1:8b-instruct-q4_K_M", temp |-> 15,
                   npred |-> 420, fmt |-> TRUE, rules |-> 0]

VARIABLES
    version,     \* the script that runs
    cfg,         \* its configuration
    input,       \* the records parsed from the XML file
    run,         \* number of the current run
    pc,          \* where the run is
    i,           \* 1-based index of the record being processed
    cur,         \* the locals of the loop body for that record
    cache,       \* the in-memory cache: key -> entry
    disk,        \* the cache file
    errors,      \* the in-memory error ledger
    diskErrors,  \* the errors file
    out,         \* enriched_products of the current run
    prevOut,     \* key and enrichment of each record of the run before, if it completed
    produced,    \* records for which some run has produced a result
    fp,          \* fingerprint study: two key inputs and their keys
    cl,          \* classifier study: a record and its heuristic outcome
    nz,          \* normaliser study: a record, a generation outcome, the result
    ex,          \* extractor study: a reply text and what is cut out of it
    dm,          \* domain study: a record, a classification reply, the domain_info
    rq           \* request study: one generation call, request by request

vars == <<version, cfg, input, run, pc, i, cur, cache, disk, errors, diskErrors, out,
          prevOut, produced, fp, cl, nz, ex, dm, rq>>

pipeVars == <<version, cfg, input, run, pc, i, cur, cache, disk, errors, diskErrors, out,
              prevOut, produced>>

\* the value of a study variable that is not in use
Idle == [done |-> FALSE]

PipeIdle ==
    /\ version = "v008" /\ cfg = DefaultCfg("v008") /\ input = <<>> /\ run = 0
    /\ pc = "idle" /\ i = 0 /\ cur = Idle /\ cache = <<>> /\ disk = <<>>
    /\ errors = <<>> /\ diskErrors = <<>> /\ out = <<>> /\ prevOut = <<>> /\ produced = {}

(***************************************************************************)
(* What each script makes of a generation, and its fallback.               *)
(***************************************************************************)
\* the literal empty enrichment v008 normalises when generation has failed
EmptyEnrich008 ==
    << <<"slug", VStr(<<>>)>>, <<"short_desc", VStr(<<>>)>>, <<"bullets", VList(<<>>)>>,
       <<"tags", VList(<<>>)>>, <<"seo_title", VStr(<<>>)>>, <<"seo_description", VStr(<<>>)>> >>

\* the result built from a parsed generation object
Generated(ver, rec, dom, raw) ==
    CASE ver = "v002" -> normalize_enriched002(rec, dom, raw)
      [] ver = "v003" -> MinimalNormalize003(raw, rec)
      [] ver = "v007" -> normalize_enriched007(raw, rec)
      [] ver = "v008" -> normalize_enrichment(rec, raw)
      [] OTHER -> normalize_output(raw, rec)

\* the result built without the service (the final version has none)
Fallback(ver, rec, dom) ==
    CASE ver = "v002" -> fallback_enrich002(rec, dom)
      [] ver = "v003" -> fallback_enrich003(rec, dom)
      [] ver = "v007" -> fallback_enrich007(rec)
      [] ver = "v008" -> normalize_enrichment(rec, EmptyEnrich008)
      [] OTHER -> RaisedRes

\* the domain the heuristics alone give a record
HeuristicDomain(ver, rec) ==
    CASE ver = "v002" -> heuristic_domain(rec).domain
      [] ver = "v003" -> IF detect_domain_heuristic(rec) = NoDomain THEN "generic"
                         ELSE detect_domain_heuristic(rec).domain
      [] OTHER -> ""

(***************************************************************************)
(* Normaliser study: one record, one generation outcome, the result.       *)
(***************************************************************************)
PipelineVersions == {"v002", "v003", "v007", "v008", "final"}

NormRecords ==
    { << <<"nombre", <<"T","a","z","a">>>> >>,
      << <<"nombre", <<"S","o","p","o","r","t","e">>>>, <<"descripcion", <<"L","i","s","t","o"," ","p","a","r","a"," ","u","s","a","r">>>>, <<"material", <<"P","L","A">>>> >>,
      << <<"nombre", <<"C","a","j","a">>>>, <<"descripcion", <<"D","i","s","e","n~","o"," ","p","e","n","s","a","d","o"," ","p","a","r","a"," ","u","s","o"," ","d","i","a","r","i","o">>>>, <<"categoria", <<"H","o","g","a","r">>>>, <<"material", <<"P","L","A">>>>, <<"marca", <<"A","c","m","e">>>>, <<"modelo", <<"X","1">>>>, <<"tamano", <<"1","0"," ","c","m">>>> >>,
      << <<"nombre", <<"O","v","i","l","l","o">>>>, <<"descripcion", <<"L","a","n","a"," ","s","u","a","v","e">>>>, <<"categoria", <<"L","a","n","a","s">>>>, <<"color", <<"r","o","j","o">>>>, <<"grosor", <<"f","i","n","o">>>>, <<"precio", <<"4">>>> >> }

GenFull ==
    << <<"slug", VStr(<<"m","i","-","p","r","o","d","u","c","t","o">>)>>,
       <<"short_desc", VStr(<<"U","n","a"," ","p","i","e","z","a"," ","p","r","a'","c","t","i","c","a">>)>>,
       <<"bullets", VList(<<VStr(<<"O","r","d","e","n"," ","e","n"," ","t","u"," ","m","e","s","a">>), VStr(<<"M","o","n","t","a","j","e"," ","s","i","n"," ","h","e","r","r","a","m","i","e","n","t","a","s">>), VStr(<<"R","e","s","i","s","t","e"," ","e","l"," ","u","s","o"," ","d","i","a","r","i","o">>)>>)>>,
       <<"tags", VList(<<VStr(<<"h","o","g","a","r">>), VStr(<<"o","r","d","e","n">>), VStr(<<"m","e","s","a">>), VStr(<<"r","e","g","a","l","o">>), VStr(<<"o","f","i","c","i","n","a">>), VStr(<<"p","r","a","c","t","i","c","o">>)>>)>>,
       <<"seo_title", VStr(<<"M","i"," ","p","r","o","d","u","c","t","o">>)>>,
       <<"seo_description", VStr(<<"C","o","m","p","r","a"," ","m","i"," ","p","r","o","d","u","c","t","o">>)>> >>

GenPartial ==
    << <<"short_desc", VStr(<<"S","o","p","o","r","t","e"," ","e","s","t","a","b","l","e">>)>>,
       <<"bullets", VList(<<VStr(<<"L","i","s","t","o"," ","p","a","r","a"," ","u","s","a","r">>), VStr(<<"A","c","a","b","a","d","o"," ","l","i","m","p","i","o"," ","y"," ","e","l","e","g","a","n","t","e">>)>>)>>,
       <<"tags", VList(<<VStr(<<"O","f","e","r","t","a">>), VStr(<<"h","o","g","a","r">>)>>)>> >>

GenNear ==
    << <<"short_desc", VStr(<<"D","i","s","e","n~","o"," ","f","u","n","c","i","o","n","a","l"," ","y"," ","l","i","g","e","r","o">>)>>,
       <<"bullets", VList(<<VStr(<<"D","i","s","e","n~","o"," ","f","u","n","c","i","o","n","a","l"," ","y"," ","l","i","g","e","r","o">>), VStr(<<"M","o","n","t","a","j","e"," ","r","a'","p","i","d","o">>), VStr(<<"M","o","n","t","a","j","e"," ","r","a","p","i","d","o">>)>>)>>,
       <<"tags", VList(<<VStr(<<"a">>), VStr(<<"b">>), VStr(<<"c">>), VStr(<<"d">>), VStr(<<"e">>), VStr(<<"f">>), VStr(<<"g">>), VStr(<<"h">>), VStr(<<"i">>), VStr(<<"j">>), VStr(<<"k">>)>>)>>,
       <<"seo_description", VStr(<<"D","i","s","e","n~","o"," ","f","u","n","c","i","o","n","a","l"," ","y"," ","l","i","g","e","r","o">>)>> >>

\* an object that also holds keys the prompt did not ask for
GenExtra ==
    GenPartial \o << <<"nombre", VStr(<<"O","t","r","o">>)>>, <<"nota", VStr(<<"x">>)>> >>

\* a sentence of ordinary words, longer than every cap on short_desc
LongSentence ==
    <<"S","o","p","o","r","t","e"," ","d","e"," ","e","s","c","r","i","t","o","r","i",
      "o"," ","l","i","g","e","r","o"," ","y"," ","e","s","t","a","b","l","e"," ","q",
      "u","e"," ","m","a","n","t","i","e","n","e"," ","e","l"," ","t","e","l","e","f",
      "o","n","o"," ","a"," ","l","a"," ","v","i","s","t","a"," ","m","i","e","n","t",
      "r","a","s"," ","t","r","a","b","a","j","a","s",","," ","c","o","n"," ","b","a",
      "s","e"," ","a","n","t","i","d","e","s","l","i","z","a","n","t","e",","," ","m",
      "o","n","t","a","j","e"," ","s","i","n"," ","h","e","r","r","a","m","i","e","n",
      "t","a","s"," ","y"," ","u","n"," ","a","c","a","b","a","d","o"," ","l","i","m",
      "p","i","o"," ","q","u","e"," ","c","o","m","b","i","n","a"," ","c","o","n"," ",
      "c","u","a","l","q","u","i","e","r"," ","m","e","s","a"," ","d","e"," ","o","f",
      "i","c","i","n","a"," ","o"," ","d","e"," ","c","a","s","a"," ","s","i","n"," ",
      "o","c","u","p","a","r"," ","e","s","p","a","c","i","o">>

\* a sentence whose 140th character lies inside a word of more than 20 letters
LongWordSentence ==
    <<"S","o","p","o","r","t","e"," ","d","e"," ","e","s","c","r","i","t","o","r","i",
      "o"," ","l","i","g","e","r","o"," ","y"," ","e","s","t","a","b","l","e"," ","q",
      "u","e"," ","m","a","n","t","i","e","n","e"," ","e","l"," ","t","e","l","e","f",
      "o","n","o"," ","a"," ","l","a"," ","v","i","s","t","a"," ","m","i","e","n","t",
      "r","a","s"," ","t","r","a","b","a","j","a","s"," ","c","o","n"," ","u","n","a",
      " ","b","a","s","e"," ","d","e"," ","g","o","m","a"," ","a","n","t","i","d","e",
      "s","l","i","z","a","n","t","e","-","u","l","t","r","a","r","r","e","s","i","s",
      "t","e","n","t","e"," ","y"," ","m","o","n","t","a","j","e"," ","s","i","n"," ",
      "h","e","r","r","a","m","i","e","n","t","a","s">>

GenLong == << <<"short_desc", VStr(LongSentence)>> >>

GenLongWord == << <<"short_desc", VStr(LongWordSentence)>> >>

\* an object whose slug begins and ends with a separator
GenSlug == << <<"slug", VStr(<<"-","O","f","e","r","t","a","_","2","x","1","-">>)>> >>

\* an object with a number where a text is expected, and a null
GenTyped == << <<"slug", JNum(5)>>, <<"short_desc", VNull>> >>

\* the parsed objects the service is taken to answer with
Generations ==
    {<<>>, GenFull, GenPartial, GenNear, GenExtra, GenLong, GenLongWord, GenSlug,
     GenTyped}

\* a generation outcome: a parsed object, or a failure left to the fallback
GenOutcomes ==
    {[kind |-> "object", raw |-> g] : g \in Generations} \cup {[kind |-> "failure", raw |-> <<>>]}

InitNorm ==
    /\ PipeIdle /\ fp = Idle /\ cl = Idle /\ ex = Idle /\ dm = Idle /\ rq = Idle
    /\ \E ver \in PipelineVersions : \E r \in NormRecords : \E g \in GenOutcomes :
           /\ (ver = "final" => g.kind = "object")
           /\ nz = [done |-> FALSE, ver |-> ver, rec |-> r, gen |-> g, res |-> RaisedRes]

Normalize ==
    /\ ~nz.done
    /\ nz' = [nz EXCEPT !.done = TRUE,
                        !.res = IF nz.gen.kind = "object"
                                THEN Generated(nz.ver, nz.rec, HeuristicDomain(nz.ver, nz.rec),
                                               nz.gen.raw)
                                ELSE Fallback(nz.ver, nz.rec, HeuristicDomain(nz.ver, nz.rec))]
    /\ UNCHANGED <<pipeVars, fp, cl, ex, dm, rq>>

NextNorm == Normalize

SpecNorm == InitNorm /\ [][NextNorm]_vars

NonEmptySeq(xs) == \A k \in 1..Len(xs) : xs[k] # <<>>

\* C2: whatever the record and the outcome of generation, the result holds
\* the six keys, its bullets are exactly 3 non-empty strings and its tags
\* number at least 6 and at most 10.
C2_ContractTotality ==
    (nz.done /\ nz.res.status = "ok") =>
        /\ nz.res.missing = {}
        /\ Len(nz.res.bullets) = 3 /\ NonEmptySeq(nz.res.bullets)
        /\ Len(nz.res.tags) >= 6 /\ Len(nz.res.tags) <= 10

\* two texts are redundant: equal once normalised, or similar at num/den
Redundant(a, b, num, den) ==
    norm_for_compare(a) = norm_for_compare(b) \/ SimAtLeast(a, b, num, den)

\* C6: in a result of the normaliser, fill-in bullets included, no bullet's
\* normalised text is a substring of the normalised short description, no
\* bullet is as similar to the short description as the threshold, and no
\* two bullets are equal or as similar to each other as the threshold.
C6_AntiRedundancy ==
    (nz.done /\ nz.ver \in {"v007", "v008"} /\ nz.res.status = "ok") =>
        LET b == nz.res.bullets
            sd == nz.res.short_desc
        IN  /\ \A k \in 1..Len(b) :
                 /\ ~Contains(norm_for_compare(sd), norm_for_compare(b[k]))
                 /\ ~SimAtLeast(b[k], sd, 82, 100)
            /\ \A k \in 1..Len(b) : \A j \in (k + 1)..Len(b) : ~Redundant(b[k], b[j], 90, 100)

(***************************************************************************)
(* Fingerprint study: the cache key of two inputs, side by side.           *)
(***************************************************************************)
\* records as parse_productos_xml yields them
KeyRecords ==
    { << <<"nombre", <<"T","a","z","a">>>>, <<"material", <<"P","L","A">>>>, <<"precio", <<"5">>>>, <<"color", <<"r","o","j","o">>>>, <<"grosor", <<"f","i","n","o">>>> >>,
      << <<"nombre", <<"C","a","j","a">>>>, <<"descripcion", <<"C","a","j","a">>>>, <<"tamano", <<"1","0">>>>, <<"imagen", <<"a",".","p","n","g">>>>, <<"talla", <<"M">>>>, <<"lavado", <<"n","o">>>> >>,
      << <<"marca", <<"A","c","m","e">>>>, <<"enlace", <<"x">>>>, <<"modelo", <<"X","1">>>>, <<"categoria", <<"H","o","g","a","r">>>>, <<"metros", <<"9">>>>, <<"color", <<"a","z","u","l">>>> >> }

Reverse(seq) == [k \in 1..Len(seq) |-> seq[Len(seq) + 1 - k]]

RemoveAt(seq, k) == SubSeq(seq, 1, k - 1) \o SubSeq(seq, k + 1, Len(seq))

\* the same record with the value of its k-th field changed
ChangeAt(rec, k) == [rec EXCEPT ![k] = <<rec[k][1], rec[k][2] \o <<"2">>>>]

\* a record and the records one edit away from it
Variants(rec) ==
    {rec, Reverse(rec), Tail(rec) \o <<Head(rec)>>}
    \cup {ChangeAt(rec, k) : k \in 1..Len(rec)}
    \cup {RemoveAt(rec, k) : k \in 1..Len(rec)}

\* a configuration and the configurations one setting away from it
CfgVariants(c) ==
    {c, [c EXCEPT !.model = "phi3:mini"], [c EXCEPT !.temp = c.temp + 5],
     [c EXCEPT !.rules = c.rules + 1]}

InitKey ==
    /\ PipeIdle /\ cl = Idle /\ nz = Idle /\ ex = Idle /\ dm = Idle /\ rq = Idle
    /\ \E ver \in CachingVersions : \E a \in KeyRecords : \E b \in Variants(a) :
       \E cb \in CfgVariants(DefaultCfg(ver)) :
           fp = [done |-> FALSE, ver |-> ver, a |-> a, b |-> b, ca |-> DefaultCfg(ver),
                 cb |-> cb, dom |-> "generic", ka |-> <<>>, kb |-> <<>>]

\* both keys are computed
HashBoth ==
    /\ ~fp.done
    /\ fp' = [fp EXCEPT !.done = TRUE,
                        !.ka = CacheKey(fp.ver, fp.a, fp.dom, fp.ca),
                        !.kb = CacheKey(fp.ver, fp.b, fp.dom, fp.cb)]
    /\ UNCHANGED <<pipeVars, cl, nz, ex, dm, rq>>

NextKey == HashBoth

SpecKey == InitKey /\ [][NextKey]_vars

\* the fields the fingerprint is said to leave out
Unhashed == {"precio", "imagen", "enlace"}

HashedPart(rec) == PairSet(SelectPairs(rec, Unhashed))

\* C8: two fingerprint inputs that differ in a hashed record field, in the
\* model, in the temperature or in the rules version have different cache
\* keys, and two records that differ only in precio, imagen or enlace have
\* the same cache key.
C8_FingerprintSensitivity ==
    fp.done =>
        /\ ( \/ HashedPart(fp.a) # HashedPart(fp.b)
             \/ fp.ca.model # fp.cb.model
             \/ fp.ca.temp # fp.cb.temp
             \/ fp.ca.rules # fp.cb.rules ) => fp.ka # fp.kb
        /\ (HashedPart(fp.a) = HashedPart(fp.b) /\ fp.ca = fp.cb) => fp.ka = fp.kb

\* C9: two records holding the same field/value pairs in different orders
\* have the same cache key under the same configuration, whatever the
\* nesting level at which the fields enter the key object.
C9_OrderIndependent ==
    (fp.done /\ PairSet(fp.a) = PairSet(fp.b) /\ fp.ca = fp.cb) => fp.ka = fp.kb

\* a key was computed for two different orders of the same fields, with the
\* extras sub-object (or the nested product) built in two different orders
C9_Witness ==
    /\ fp.done /\ fp.ver \in {"v004", "v007"} /\ fp.ca = fp.cb
    /\ fp.a # fp.b /\ PairSet(fp.a) = PairSet(fp.b)
    /\ SelectPairs(fp.a, Base007) # SelectPairs(fp.b, Base007)
    /\ Len(SelectPairs(fp.a, Base007)) >= 2
    /\ fp.ka = fp.kb

(***************************************************************************)
(* Classifier study: the heuristic outcome for one record.                 *)
(***************************************************************************)
ClNames ==
    << <<"T","a","z","a">>,
       <<"Z","a","p","a","t","i","l","l","a"," ","r","u","n","n","i","n","g">>,
       <<"C","a","m","i","s","e","t","a">>,
       <<"C","a","b","l","e"," ","u","s","b">>,
       <<"Z","a","p","a","t","o"," ","v","e","g","a","n","o">>,
       <<"O","v","i","l","l","o"," ","d","e"," ","l","a","n","a">> >>
ClMaterials ==
    << <<>>,
       <<"P","L","A">>,
       <<"p","l","a","t","a">>,
       <<"A","l","g","o","d","o'","n">> >>
ClTallas ==
    << <<>>,
       <<"E","U"," ","4","2">> >>
ClColors ==
    << <<>>,
       <<"r","o","j","o">> >>

\* a record from the fields that are not empty, as the XML loaders keep them
MkRecord(pairs) == SelectSeq(pairs, LAMBDA p : p[2] # <<>>)

ClassifierRecords ==
    { MkRecord(<< <<"nombre", ClNames[n]>>, <<"material", ClMaterials[m]>>,
                  <<"talla", ClTallas[t]>>, <<"color", ClColors[c]>> >>) :
        n \in 1..Len(ClNames), m \in 1..Len(ClMaterials),
        t \in 1..Len(ClTallas), c \in 1..Len(ClColors) }

InitClassify ==
    /\ PipeIdle /\ fp = Idle /\ nz = Idle /\ ex = Idle /\ dm = Idle /\ rq = Idle
    /\ \E ver \in {"v002", "v003"} : \E r \in ClassifierRecords :
           cl = [done |-> FALSE, ver |-> ver, rec |-> r, res |-> NoDomain]

Classify ==
    /\ ~cl.done
    /\ cl' = [cl EXCEPT !.done = TRUE,
                        !.res = IF cl.ver = "v002" THEN heuristic_domain(cl.rec)
                                ELSE detect_domain_heuristic(cl.rec)]
    /\ UNCHANGED <<pipeVars, fp, nz, ex, dm, rq>>

NextClassify == Classify

SpecClassify == InitClassify /\ [][NextClassify]_vars

\* the rule table of each classifier: which rules a record satisfies, and
\* what each rule answers, in the fixed order
RuleHits(ver, rec) ==
    IF ver = "v002"
    THEN LET text == HeurText002(rec)
         IN  <<Rule3d002(text), RuleFootwear002(text), RuleApparel002(text),
               RuleElec002(text), RuleFood002(text), RuleService002(text)>>
    ELSE <<Rule3d003(rec), RuleYarnFields003(rec), RuleYarnHints003(rec), RuleFootwear003(rec)>>

RuleAnswers(ver) ==
    IF ver = "v002"
    THEN <<Heur("3d_printing", 95, <<"material/keywords 3d">>),
           Heur("footwear", 85, <<"keywords/talla footwear">>),
           Heur("apparel", 75, <<"keywords talla apparel">>),
           Heur("electronics", 70, <<"keywords electronics">>),
           Heur("food", 70, <<"keywords food">>),
           Heur("service", 70, <<"keywords service">>)>>
    ELSE <<Heur("3d_printing", 95, <<"material/keywords 3d">>),
           Heur("yarn_crafts", 95, <<"fields: grosor/metros/lavado/color">>),
           Heur("yarn_crafts", 90, <<"keywords yarn/crafts">>),
           Heur("footwear", 85, <<"keywords footwear">>)>>

NoMatch(ver) == IF ver = "v002" THEN Generic002 ELSE NoDomain

\* C10: the heuristic classifier answers with the domain, confidence and
\* signals of the earliest rule, in the fixed order, that the record
\* satisfies, and with the generic / no-match outcome only when the record
\* satisfies no rule.
C10_EarliestRuleWins ==
    cl.done =>
        LET hits == RuleHits(cl.ver, cl.rec)
        IN  /\ \A k \in 1..Len(hits) :
                 (hits[k] /\ \A j \in 1..(k - 1) : ~hits[j])
                     => cl.res = RuleAnswers(cl.ver)[k]
            /\ (cl.res = NoMatch(cl.ver)) <=> (\A k \in 1..Len(hits) : ~hits[k])

\* a classified record that satisfies two rules or more
C10_Witness ==
    /\ cl.done
    /\ Cardinality({k \in 1..Len(RuleHits(cl.ver, cl.rec)) : RuleHits(cl.ver, cl.rec)[k]}) >= 2
    /\ cl.res # NoMatch(cl.ver)

(***************************************************************************)
(* The run: main() of each script, one action per stretch of code between  *)
(* two exchanges with the generation service.                              *)
(***************************************************************************)
MaxRecords == 2

MaxRuns == 2

MAX_RETRIES == 1

HEURISTIC_CONF_THRESHOLD == 70

\* <producto> elements of the XML file, as <<tag, text>> children
XmlItems ==
    { << <<"nombre", <<"T","a","z","a">>>> >>,
      << <<"nombre", <<"S","o","p","o","r","t","e">>>>, <<"descripcion", <<"L","i","s","t","o"," ","p","a","r","a"," ","u","s","a","r">>>>, <<"material", <<"P","L","A">>>> >>,
      << <<"nombre", <<"C","a","j","a">>>>, <<"descripcion", <<"C","a","j","a">>>>, <<"categoria", <<"H","o","g","a","r">>>>, <<"material", <<"M","e","t","a","l">>>>, <<"marca", <<"A","c","m","e">>>>, <<"modelo", <<"X","1">>>>, <<"tamano", <<"1","0"," ","c","m">>>>, <<"color", <<"r","o","j","o">>>> >> }

\* parse_productos_xml, one element: v002 adds nombre and descripcion, the
\* others keep the children that have text
ParseItem(ver, item) ==
    IF ver = "v002"
    THEN item
         \o (IF HasKey(item, "nombre") THEN <<>>
             ELSE << <<"nombre", Get(item, "name", <<>>)>> >>)
         \o (IF HasKey(item, "descripcion") THEN <<>>
             ELSE << <<"descripcion", Get(item, "description", <<>>)>> >>)
    ELSE IF ver = "final" THEN item
    ELSE SelectSeq(item, LAMBDA p : p[2] # <<>>)

parse_productos_xml(ver, xml) == [k \in 1..Len(xml) |-> ParseItem(ver, xml[k])]

XmlDocs == UNION {[1..n -> XmlItems] : n \in 1..MaxRecords}

\* domain_info
Info(h, m) == [domain |-> h.domain, confidence |-> h.confidence, signals |-> h.signals,
               method |-> m]

NoInfo == Info(NoDomain, "")

\* the locals of the loop body before a record is taken up
CurReset ==
    [dom |-> NoInfo, key |-> <<>>, attempt |-> 0, rawTxt |-> FALSE, nClassify |-> 0,
     nEnrich |-> 0, nRepair |-> 0, onlyTimeouts |-> TRUE, errs |-> <<>>]

\* what the service does with one request: a transport failure, a reply
\* with empty or unparseable text, or a reply holding a JSON object
Failures == {"connect", "timeout", "http", "empty", "malformed"}

EnrichOutcomes ==
    {[kind |-> f, raw |-> <<>>] : f \in Failures}
    \cup {[kind |-> "object", raw |-> g] : g \in {GenFull, GenPartial}}

ClassifyOutcomes == {"timeout", "food", "service"}

Allowed002 == {"3d_printing", "footwear", "apparel", "electronics", "food", "service",
               "generic"}

Init ==
    /\ fp = Idle /\ cl = Idle /\ nz = Idle /\ ex = Idle /\ dm = Idle /\ rq = Idle
    /\ version \in PipelineVersions
    /\ \E e \in BOOLEAN : cfg = [DefaultCfg(version) EXCEPT !.enabled = e]
    /\ \E xml \in XmlDocs : input = parse_productos_xml(version, xml)
    /\ run = 1 /\ pc = "start" /\ i = 0 /\ cur = CurReset
    /\ cache = <<>> /\ disk = <<>> /\ errors = <<>> /\ diskErrors = <<>>
    /\ out = <<>> /\ prevOut = <<>> /\ produced = {}

HasCache == version # "final"

\* main() up to the loop: the final version refuses to run with the service
\* disabled; the others load the cache file (v002 the errors file too)
StartRun ==
    /\ pc = "start"
    /\ IF version = "final" /\ ~cfg.enabled
       THEN /\ pc' = "aborted"
            /\ UNCHANGED <<i, cur, cache, errors, out>>
       ELSE /\ pc' = "record"
            /\ i' = 1
            /\ cur' = CurReset
            /\ cache' = IF HasCache THEN disk ELSE <<>>
            /\ errors' = IF version = "v002" THEN diskErrors ELSE <<>>
            /\ out' = <<>>
    /\ UNCHANGED <<version, cfg, input, run, disk, diskErrors, prevOut, produced, fp, cl, nz, ex, dm, rq>>

\* the head of the loop body: the heuristic classification of v002 and v003
BeginRecord ==
    /\ pc = "record"
    /\ LET rec == input[i]
           h2 == heuristic_domain(rec)
           h3 == detect_domain_heuristic(rec)
       IN  CASE version = "v002" ->
                  /\ cur' = [cur EXCEPT !.dom = Info(h2, "heuristic")]
                  /\ pc' = IF ~cfg.enabled \/ h2.confidence >= HEURISTIC_CONF_THRESHOLD
                           THEN "lookup" ELSE "classify"
             [] version = "v003" ->
                  IF h3 # NoDomain
                  THEN cur' = [cur EXCEPT !.dom = Info(h3, "heuristic")] /\ pc' = "lookup"
                  ELSE /\ cur' = [cur EXCEPT !.dom =
                                     Info(Heur("generic", 0, <<"unknown">>), "fallback")]
                       /\ pc' = IF cfg.enabled THEN "classify" ELSE "lookup"
             [] version = "final" -> cur' = cur /\ pc' = "enrich"
             [] OTHER -> cur' = cur /\ pc' = "lookup"
    /\ UNCHANGED <<version, cfg, input, run, i, cache, disk, errors, diskErrors, out,
                   prevOut, produced, fp, cl, nz, ex, dm, rq>>

ErrEntry(stage) == [index |-> i, stage |-> stage]

\* the classification request is answered: ollama_classify inside
\* choose_domain (v002), ollama_classify_domain inside main (v003)
ClassifyReply(o) ==
    /\ pc = "classify"
    /\ LET failed == o = "timeout"
           info == CASE failed /\ version = "v002" ->
                          [cur.dom EXCEPT !.method = "heuristic_fallback"]
                     [] failed ->
                          Info(Heur("generic", 0, <<"classify_error">>), "fallback")
                     [] version = "v002" ->
                          Info(Heur(IF o \in Allowed002 THEN o ELSE cur.dom.domain, 80, <<>>),
                               "ollama_classify")
                     [] OTHER -> Info(Heur(o, 80, <<>>), "ollama_classify")
           newErrs == IF failed THEN <<ErrEntry("classify")>> ELSE <<>>
       IN  /\ cur' = [cur EXCEPT !.dom = info, !.nClassify = @ + 1, !.errs = @ \o newErrs]
           /\ errors' = errors \o newErrs
    /\ pc' = "lookup"
    /\ UNCHANGED <<version, cfg, input, run, i, cache, disk, diskErrors, out, prevOut,
                   produced, fp, cl, nz, ex, dm, rq>>

\* a cache entry: the stored result and, in v002 and v003, the domain_info
Entry(res, dom) == [res |-> res, dom |-> dom]

\* variant: the enrichment read from a cache entry, its tags lost
HitResultWithoutTags(entry) == [entry.res EXCEPT !.tags = <<>>]

\* the enrichment read from a cache entry
HitResult(entry) == entry.res

\* one element of enriched_products, with what happened while it was made
Item(res, method, dom, c, hit, cached, fb, gaveUp) ==
    [rec |-> input[i], res |-> res, method |-> method, dom |-> dom, key |-> c.key,
     hit |-> hit, cached |-> cached, ranFallback |-> fb, gaveUp |-> gaveUp,
     nClassify |-> c.nClassify, nEnrich |-> c.nEnrich, nRepair |-> c.nRepair,
     onlyTimeouts |-> c.onlyTimeouts, errs |-> c.errs]

\* variant: a new entry takes the place of the entries the cache held
CompleteEvicting(res, method, c, hit, cached, fb, gaveUp, newErrs) ==
    LET c2 == [c EXCEPT !.errs = @ \o newErrs]
        dom == IF hit THEN cached.dom ELSE c.dom
    IN  /\ cache' = IF HasCache /\ ~hit THEN (c.key :> Entry(res, c.dom)) ELSE cache
        /\ errors' = errors \o newErrs
        /\ out' = Append(out, Item(res, method, dom, c2, hit, cached.res, fb, gaveUp))
        /\ produced' = produced \cup {input[i]}
        /\ cur' = CurReset
        /\ IF i = Len(input) THEN pc' = "finish" /\ i' = i ELSE pc' = "record" /\ i' = i + 1

\* the tail of the loop body: cache write, merge into the output, next record
Complete(res, method, c, hit, cached, fb, gaveUp, newErrs) ==
    LET c2 == [c EXCEPT !.errs = @ \o newErrs]
        dom == IF hit THEN cached.dom ELSE c.dom
    IN  /\ cache' = IF HasCache /\ ~hit THEN (c.key :> Entry(res, c.dom)) @@ cache ELSE cache
        /\ errors' = errors \o newErrs
        /\ out' = Append(out, Item(res, method, dom, c2, hit, cached.res, fb, gaveUp))
        /\ produced' = produced \cup {input[i]}
        /\ cur' = CurReset
        /\ IF i = Len(input) THEN pc' = "finish" /\ i' = i ELSE pc' = "record" /\ i' = i + 1

NoEntry == Entry(RaisedRes, NoInfo)

\* a result is at hand, unless the function that builds it never returned
Settle(res, method, c, fb, gaveUp, newErrs) ==
    IF res.status = "hang"
    THEN /\ pc' = "hung"
         /\ cur' = c
         /\ UNCHANGED <<i, cache, errors, out, produced>>
    ELSE Complete(res, method, c, FALSE, NoEntry, fb, gaveUp, newErrs)

\* all attempts have failed: one ledger entry, then the fallback
GiveUp(c) ==
    Settle(Fallback(version, input[i], c.dom.domain), "fallback", c, TRUE, TRUE,
           <<ErrEntry(IF version = "v007" THEN "ollama_enrich" ELSE "enrich")>>)

\* cache key, lookup, and the branch taken without the service
Lookup ==
    /\ pc = "lookup"
    /\ LET key == CacheKey(version, input[i], cur.dom.domain, cfg)
           c == [cur EXCEPT !.key = key]
       IN  IF key \in DOMAIN cache
           THEN Complete(HitResult(cache[key]), "cache", c, TRUE, cache[key], FALSE, FALSE,
                         <<>>)
           ELSE IF cfg.enabled
                THEN /\ pc' = "enrich"
                     /\ cur' = c
                     /\ UNCHANGED <<i, cache, errors, out, produced>>
                ELSE Settle(Fallback(version, input[i], c.dom.domain), "fallback", c,
                            TRUE, FALSE, <<>>)
    /\ UNCHANGED <<version, cfg, input, run, disk, diskErrors, prevOut, fp, cl, nz, ex, dm, rq>>

Transport == {"connect", "timeout", "http"}

\* the reply text yields an object to normalise: json.loads of v003, v007
\* and v008 needs an object; v002 reads empty text as {}; the final version
\* reads whatever it cannot parse as {}
Parses(ver, o) ==
    \/ o.kind = "object"
    \/ o.kind = "empty" /\ ver \in {"v002", "final"}
    \/ o.kind = "malformed" /\ ver = "final"

Retry(c) ==
    /\ pc' = "enrich"
    /\ cur' = [c EXCEPT !.attempt = @ + 1]
    /\ UNCHANGED <<i, cache, errors, out, produced>>

\* an enrichment request is answered
EnrichReply(o) ==
    /\ pc = "enrich"
    /\ LET c == [cur EXCEPT !.nEnrich = @ + 1,
                            !.onlyTimeouts = @ /\ o.kind = "timeout"]
           r == Generated(version, input[i], cur.dom.domain, o.raw)
           good == Parses(version, o) /\ r.status # "raise"
       IN  IF good
           THEN Settle(r, IF version = "v003" THEN "ollama_enrich" ELSE "ollama", c,
                       FALSE, FALSE, <<>>)
           ELSE CASE version = "final" ->
                       IF o.kind \in Transport /\ cur.attempt < MAX_RETRIES
                       THEN Retry(c)
                       ELSE /\ pc' = "aborted"
                            /\ cur' = c
                            /\ UNCHANGED <<i, cache, errors, out, produced>>
                  [] version = "v002" ->
                       Settle(Fallback(version, input[i], c.dom.domain), "fallback", c,
                              TRUE, TRUE, <<ErrEntry("enrich")>>)
                  [] version = "v008" /\ cur.rawTxt ->
                       /\ pc' = "repair"
                       /\ cur' = c
                       /\ UNCHANGED <<i, cache, errors, out, produced>>
                  [] OTHER ->
                       IF cur.attempt < MAX_RETRIES
                       THEN Retry([c EXCEPT !.rawTxt = TRUE])
                       ELSE GiveUp(c)
    /\ UNCHANGED <<version, cfg, input, run, disk, diskErrors, prevOut, fp, cl, nz, ex, dm, rq>>

\* v008: the repair request sent by try_repair_json is answered
RepairReply(o) ==
    /\ pc = "repair"
    /\ LET c == [cur EXCEPT !.nRepair = @ + 1,
                            !.onlyTimeouts = @ /\ o.kind = "timeout"]
       IN  IF o.kind = "object"
           THEN Settle(normalize_enrichment(input[i], o.raw), "ollama_repair", c,
                       FALSE, FALSE, <<>>)
           ELSE IF cur.attempt < MAX_RETRIES THEN Retry(c) ELSE GiveUp(c)
    /\ UNCHANGED <<version, cfg, input, run, disk, diskErrors, prevOut, fp, cl, nz, ex, dm, rq>>

\* after the loop: the cache file, the errors file and the catalog are written
FinishRun ==
    /\ pc = "finish"
    /\ pc' = "done"
    /\ disk' = IF HasCache THEN cache ELSE disk
    /\ diskErrors' = IF HasCache THEN errors ELSE diskErrors
    /\ UNCHANGED <<version, cfg, input, run, i, cur, cache, errors, out, prevOut, produced,
                   fp, cl, nz, ex, dm, rq>>

\* the script is started again on the same input with the same configuration
NextRun ==
    /\ pc \in {"done", "aborted"}
    /\ run < MaxRuns
    /\ run' = run + 1
    /\ pc' = "start"
    /\ prevOut' = IF pc = "done"
                  THEN [k \in 1..Len(out) |-> [key |-> out[k].key, res |-> out[k].res]]
                  ELSE <<>>
    /\ UNCHANGED <<version, cfg, input, i, cur, cache, disk, errors, diskErrors, out,
                   produced, fp, cl, nz, ex, dm, rq>>

Next ==
    \/ StartRun
    \/ BeginRecord
    \/ \E o \in ClassifyOutcomes : ClassifyReply(o)
    \/ Lookup
    \/ \E o \in EnrichOutcomes : EnrichReply(o)
    \/ \E o \in EnrichOutcomes : RepairReply(o)
    \/ FinishRun
    \/ NextRun

Spec == Init /\ [][Next]_vars


\* ---------------------------------------------------------------------
\* Properties of the run
\* ---------------------------------------------------------------------

\* C1: with the service enabled, whatever it answers, the run is never
\* aborted and never stuck, and a run that has ended has emitted exactly
\* one enriched record per input record, in input order.
C1_RunCompletes ==
    cfg.enabled =>
        /\ pc \notin {"aborted", "hung"}
        /\ pc = "done" =>
             /\ Len(out) = Len(input)
             /\ \A k \in 1..Len(out) : out[k].rec = input[k]

C4_AtMostOneGeneration ==
    pc = "enrich" => input[i] \notin produced

\* C5: a record all of whose enrichment requests timed out is emitted with
\* the fallback's output and leaves exactly one ledger entry for its
\* enrichment, with its index and stage "enrich"; the run goes on.
C5_TimeoutFallsBack ==
    /\ pc \in {"aborted", "hung"} => ~(cur.nEnrich > 0 /\ cur.onlyTimeouts)
    /\ \A k \in 1..Len(out) :
           (out[k].gaveUp /\ out[k].onlyTimeouts) =>
               /\ out[k].res = Fallback(version, out[k].rec, out[k].dom.domain)
               /\ SelectSeq(out[k].errs, LAMBDA e : e.stage # "classify")
                      = <<[index |-> k, stage |-> "enrich"]>>

\* C7: when a second run over the same records and configuration has ended
\* after a complete first run, every record has the key it had in the first
\* run, is a cache hit, and carries the enrichment emitted by the first run.
C7_Idempotent ==
    (pc = "done" /\ run >= 2 /\ Len(prevOut) = Len(input)) =>
        \A k \in 1..Len(out) :
            /\ out[k].key = prevOut[k].key
            /\ out[k].hit
            /\ out[k].res = prevOut[k].res


(***************************************************************************)
(* The JSON extractors: what each script cuts out of a reply text.         *)
(***************************************************************************)
\* str.find for one character, positions from 1, 0 when absent
Find(s, c) ==
    IF \E k \in 1..Len(s) : s[k] = c
    THEN CHOOSE k \in 1..Len(s) : s[k] = c /\ \A j \in 1..(k - 1) : s[j] # c
    ELSE 0

\* str.rfind for one character, positions from 1, 0 when absent
RFind(s, c) ==
    IF \E k \in 1..Len(s) : s[k] = c
    THEN CHOOSE k \in 1..Len(s) : s[k] = c /\ \A j \in (k + 1)..Len(s) : s[j] # c
    ELSE 0

EndsWith(s, p) == Len(s) >= Len(p) /\ SubSeq(s, Len(s) - Len(p) + 1, Len(s)) = p

\* the backquote character, written as a token of its own
Backquote == "bq"

Fence == <<Backquote, Backquote, Backquote>>

\* str.split on the fence of three backquotes: the pieces between the fences, scanned left to right
RECURSIVE SplitFence(_, _, _)
SplitFence(s, piece, acc) ==
    IF s = <<>> THEN Append(acc, piece)
    ELSE IF StartsWith(s, Fence)
         THEN SplitFence(SubSeq(s, 4, Len(s)), <<>>, Append(acc, piece))
         ELSE SplitFence(Tail(s), Append(piece, Head(s)), acc)

\* the depth-counting loop: the position where the depth is back at zero,
\* 0 when the text ends first
RECURSIVE DepthScan(_, _, _)
DepthScan(text, k, depth) ==
    IF k > Len(text) THEN 0
    ELSE IF text[k] = "{" THEN DepthScan(text, k + 1, depth + 1)
    ELSE IF text[k] = "}"
         THEN IF depth = 1 THEN k ELSE DepthScan(text, k + 1, depth - 1)
    ELSE DepthScan(text, k + 1, depth)

IsWrapped(t, open, close) == StartsWith(t, <<open>>) /\ EndsWith(t, <<close>>)

\* text[start : rfind("}") + 1] when both braces are found in that order
CutFirstToLast(t, other) ==
    LET start == Find(t, "{")
        end == RFind(t, "}")
    IN  IF start # 0 /\ end # 0 /\ end > start THEN SubSeq(t, start, end) ELSE other

\* final version
extract_json_block(text) ==
    LET t == Strip(text)
        start == Find(t, "{")
        end == DepthScan(t, start, 0)
    IN  IF t = <<>> THEN <<>>
        ELSE IF IsWrapped(t, "{", "}") THEN t
        ELSE IF start = 0 \/ end = 0 THEN <<>>
        ELSE SubSeq(t, start, end)

\* v002
try_extract_json(text) ==
    LET t == Strip(text)
        parts == SplitFence(t, <<>>, <<>>)
        inner == SelectSeq(parts, LAMBDA p : IsWrapped(Strip(p), "{", "}"))
        t2 == IF Contains(t, Fence) /\ inner # <<>> THEN Strip(inner[1]) ELSE t
    IN  IF t = <<>> THEN <<>> ELSE CutFirstToLast(t2, t2)

\* v003
extract_json_block003(text) ==
    IF text = <<>> THEN <<>> ELSE CutFirstToLast(text, Strip(text))

\* v007 and v008
extract_json_block007(text) ==
    LET t == Strip(text)
    IN  IF text = <<>> THEN <<>>
        ELSE IF IsWrapped(t, "{", "}") \/ IsWrapped(t, "[", "]") THEN t
        ELSE CutFirstToLast(t, t)

Extract(ver, text) ==
    CASE ver = "final" -> extract_json_block(text)
      [] ver = "v002" -> try_extract_json(text)
      [] ver = "v003" -> extract_json_block003(text)
      [] OTHER -> extract_json_block007(text)

\* reply texts: an object, bare or fenced, with prose before and after it
ReplyObjects ==
    { <<"{", "}">>,
      <<"{", "\"", "a", "\"", ":", "1", "}">>,
      <<"{", "\"", "a", "\"", ":", "{", "\"", "b", "\"", ":", "2", "}", "}">> }

ReplyBefore ==
    { <<>>, <<"O", "k", ":", " ">>, Fence \o <<"j", "s", "o", "n", "\n">>,
      <<"a", "}", " ">>, <<" ", "\n">> }

ReplyAfter ==
    { <<>>, <<" ", "f", "i", "n">>, <<"\n">> \o Fence, <<" ", "{", "x", "}">>,
      <<" ", "}">>, <<" ", "{">>, <<"\n">> }

ReplyTexts ==
    {b \o o \o a : b \in ReplyBefore, o \in ReplyObjects, a \in ReplyAfter}
    \cup {<<>>, <<"n", "o">>, <<"{", "\"", "a", "\"", ":">>, <<"[", "1", "]">>,
          <<" ", "\n">>, <<"{", "{", "}">>}

InitExtract ==
    /\ PipeIdle /\ fp = Idle /\ cl = Idle /\ nz = Idle /\ dm = Idle /\ rq = Idle
    /\ \E ver \in PipelineVersions : \E t \in ReplyTexts :
           ex = [done |-> FALSE, ver |-> ver, text |-> t, res |-> <<>>]

ExtractReply ==
    /\ ~ex.done
    /\ ex' = [ex EXCEPT !.done = TRUE, !.res = Extract(ex.ver, ex.text)]
    /\ UNCHANGED <<pipeVars, fp, cl, nz, dm, rq>>

NextExtract == ExtractReply

SpecExtract == InitExtract /\ [][NextExtract]_vars

\* the slice from the first "{" of a text to the "}" that closes it, <<>>
\* when the first "{" is never closed
FirstObject(text) ==
    LET start == Find(text, "{")
        end == IF start = 0 THEN 0 ELSE DepthScan(text, start, 0)
    IN  IF end = 0 THEN <<>> ELSE SubSeq(text, start, end)

\* C11: when the first "{" of the reply text opens a brace-balanced object,
\* the extractor returns exactly the slice from that "{" to the "}" that
\* closes it, whatever prose or fences surround the object.
C11_ExtractsFirstObject ==
    (ex.done /\ FirstObject(ex.text) # <<>>) => ex.res = FirstObject(ex.text)


\* C12: with generation disabled the run neither aborts nor sticks, no
\* request of any kind is sent to the service, and every record that is not
\* found in the cache is emitted with the fallback generator's result.
C12_DisabledUsesFallback ==
    ~cfg.enabled =>
        /\ pc \notin {"aborted", "hung"}
        /\ cur.nClassify = 0 /\ cur.nEnrich = 0 /\ cur.nRepair = 0
        /\ \A k \in 1..Len(out) :
               /\ out[k].nClassify = 0 /\ out[k].nEnrich = 0 /\ out[k].nRepair = 0
               /\ ~out[k].hit =>
                      /\ out[k].ranFallback
                      /\ out[k].res = Fallback(version, out[k].rec, out[k].dom.domain)


\* the content emitted for a record came from a degraded path: the fallback
\* after the enrichment requests failed, or the normalisation of nothing
\* (an empty or unparseable reply read as the empty object)
Degraded(item) ==
    /\ ~item.hit
    /\ \/ item.gaveUp
       \/ /\ item.nEnrich > 0 /\ ~item.ranFallback
          /\ item.res = Generated(version, item.rec, item.dom.domain, <<>>)

\* C13: at the end of a run every record emitted with degraded content has
\* an entry with its index in the error ledger.
C13_DegradedIsLogged ==
    pc = "done" =>
        \A k \in 1..Len(out) :
            Degraded(out[k]) => \E e \in 1..Len(errors) : errors[e].index = k


\* the output contract: the six keys, exactly 3 non-empty bullets, 6 to 10
\* tags, seo_title of at most 60 and seo_description of at most 160 characters
Contract(res) ==
    /\ res.status = "ok"
    /\ res.missing = {}
    /\ Len(res.bullets) = 3 /\ NonEmptySeq(res.bullets)
    /\ Len(res.tags) >= 6 /\ Len(res.tags) <= 10
    /\ Len(res.seo_title) <= 60 /\ Len(res.seo_description) <= 160

\* C14: in every state of a run, every cache entry holds a result that
\* satisfies the output contract.
C14_CacheHoldsValidResults ==
    \A key \in DOMAIN cache : Contract(cache[key].res)


(***************************************************************************)
(* Domain selection: choose_domain of v002, and the first step of the      *)
(* loop body of v003 with ollama_classify_domain.                          *)
(***************************************************************************)
VNum(n) == [t |-> "n", v |-> n]

\* (domain, confidence, signals, method) with the number of ledger entries
\* appended and whether the service was asked
DomInfo(domain, conf, signals, method, entries, called) ==
    [domain |-> domain, confidence |-> conf, signals |-> signals, method |-> method,
     entries |-> entries, called |-> called]

HeurInfo(h, method, entries, called) ==
    DomInfo(VStr(DomainText(h.domain)), h.confidence, VList(h.signals), method, entries,
            called)

\* replies of the service for which requests.post, raise_for_status or
\* json.loads raises, or that hold JSON which is not an object
ClassifyFailures == {"connect", "timeout", "http", "malformed", "nonobject"}

Clamp01(n) == IF n < 0 THEN 0 ELSE IF n > 100 THEN 100 ELSE n

\* variant: a heuristic confidence equal to the threshold still asks the service
choose_domain_strict(mode, use, prod, reply) ==
    LET h == heuristic_domain(prod)
        c == IF reply.kind = "object" THEN reply.obj ELSE <<>>
        d == Get(c, "domain", VStr(<<>>))
        named == IF Truthy(d) THEN Strip(d.v) ELSE <<>>
        domain == IF named = <<>> THEN DomainText(h.domain) ELSE named
        allowed == \E a \in Allowed002 : DomainText(a) = domain
        conf == Get(c, "confidence", VNum(h.confidence))
        sig == Get(c, "signals", VList(h.signals))
    IN  IF mode # "auto"
        THEN DomInfo(VStr(DomainText(mode)), 100, VList(<<"forced by config">>), "forced",
                     0, FALSE)
        ELSE IF ~use \/ h.confidence > HEURISTIC_CONF_THRESHOLD
        THEN HeurInfo(h, "heuristic", 0, FALSE)
        ELSE IF reply.kind \in ClassifyFailures \/ (Truthy(d) /\ ~IsStrV(d))
        THEN HeurInfo(h, "heuristic_fallback", 1, TRUE)
        ELSE DomInfo(VStr(IF allowed THEN domain ELSE DomainText(h.domain)),
                     Clamp01(IF conf.t = "n" THEN conf.v ELSE h.confidence),
                     VList(IF IsListV(sig) THEN Prefix(sig.v, 4) ELSE h.signals),
                     "ollama_classify", 0, TRUE)

\* v002: choose_domain; mode is DOMAIN_MODE and use is USE_OLLAMA
choose_domain(mode, use, prod, reply) ==
    LET h == heuristic_domain(prod)
        c == IF reply.kind = "object" THEN reply.obj ELSE <<>>
        d == Get(c, "domain", VStr(<<>>))
        named == IF Truthy(d) THEN Strip(d.v) ELSE <<>>
        domain == IF named = <<>> THEN DomainText(h.domain) ELSE named
        allowed == \E a \in Allowed002 : DomainText(a) = domain
        conf == Get(c, "confidence", VNum(h.confidence))
        sig == Get(c, "signals", VList(h.signals))
    IN  IF mode # "auto"
        THEN DomInfo(VStr(DomainText(mode)), 100, VList(<<"forced by config">>), "forced",
                     0, FALSE)
        ELSE IF ~use \/ h.confidence >= HEURISTIC_CONF_THRESHOLD
        THEN HeurInfo(h, "heuristic", 0, FALSE)
        ELSE IF reply.kind \in ClassifyFailures \/ (Truthy(d) /\ ~IsStrV(d))
        THEN HeurInfo(h, "heuristic_fallback", 1, TRUE)
        ELSE DomInfo(VStr(IF allowed THEN domain ELSE DomainText(h.domain)),
                     Clamp01(IF conf.t = "n" THEN conf.v ELSE h.confidence),
                     VList(IF IsListV(sig) THEN Prefix(sig.v, 4) ELSE h.signals),
                     "ollama_classify", 0, TRUE)

\* v003: detect_domain_heuristic, then, with OLLAMA_ENABLED (use),
\* ollama_classify_domain inside the try of main, then the default for a
\* record still without a domain
classify_domain003(use, product, reply) ==
    LET h == detect_domain_heuristic(product)
        out3 == reply.obj
        d == RawGet(out3, "domain")
        conf == RawGet(out3, "confidence")
        sig == RawGet(out3, "signals")
        raises == \/ reply.kind # "object"
                  \/ Truthy(conf) /\ conf.t # "n"
                  \/ Truthy(sig) /\ sig.t = "n"
    IN  IF h # NoDomain THEN HeurInfo(h, "heuristic", 0, FALSE)
        ELSE IF ~use
        THEN DomInfo(VStr(DomainText("generic")), 0, VList(<<"unknown">>), "fallback",
                     0, FALSE)
        ELSE IF raises
        THEN DomInfo(VStr(DomainText("generic")), 0, VList(<<"classify_error">>),
                     "fallback", 1, TRUE)
        ELSE DomInfo(IF Truthy(d) THEN d ELSE VStr(DomainText("generic")),
                     IF Truthy(conf) THEN conf.v ELSE 0,
                     IF Truthy(sig) THEN [sig EXCEPT !.v = Prefix(@, 6)] ELSE VList(<<>>),
                     "ollama_classify", 0, TRUE)


\* records for the study: some decided by the heuristics, some not
DomRecords ==
    { MkRecord(<< <<"nombre", ClNames[n]>>, <<"material", ClMaterials[m]>> >>) :
        n \in {1, 4, 6}, m \in {1, 2} }

Absent == [t |-> "absent", v |-> <<>>]

ReplyDomains ==
    { Absent, VNull, VNum(5), VStr(<<"f","o","o","d">>), VStr(<<" ","f","o","o","d"," ">>),
      VStr(<<"y","a","r","n","_","c","r","a","f","t","s">>), VStr(<<"t","o","y","s">>) }

\* confidences in hundredths; the text is one that float() rejects
ReplyConfidences ==
    { Absent, VNull, VNum(80), VNum(150), VNum(0 - 20), VStr(<<"h","i","g","h">>) }

ReplySignals ==
    { Absent, VList(<<"s1", "s2">>), VList(<<"s1", "s2", "s3", "s4", "s5">>),
      VList(<<"s1", "s2", "s3", "s4", "s5", "s6", "s7">>), VStr(<<"a","b","c">>) }

\* the JSON object of a reply, from the keys that are present
ReplyObj(d, c, s) ==
    SelectSeq(<< <<"domain", d>>, <<"confidence", c>>, <<"signals", s>> >>,
              LAMBDA p : p[2] # Absent)

ClassifyReplies ==
    {[kind |-> f, obj |-> <<>>] : f \in ClassifyFailures \cup {"empty"}}
    \cup {[kind |-> "object", obj |-> ReplyObj(d, c, s)] :
            d \in ReplyDomains, c \in ReplyConfidences, s \in ReplySignals}

\* DOMAIN_MODE: "auto", or the one domain every record is given
DomainModes == {"auto", "footwear"}

NoDomInfo == DomInfo(VNull, 0, VNull, "", 0, FALSE)

InitDomain ==
    /\ PipeIdle /\ fp = Idle /\ cl = Idle /\ nz = Idle /\ ex = Idle /\ rq = Idle
    /\ \E ver \in {"v002", "v003"} : \E r \in DomRecords : \E y \in ClassifyReplies :
       \E mode \in DomainModes : \E use \in BOOLEAN :
           /\ (ver = "v003" => mode = "auto")
           /\ dm = [done |-> FALSE, ver |-> ver, rec |-> r, reply |-> y, mode |-> mode,
                    use |-> use, info |-> NoDomInfo]

ChooseDomain ==
    /\ ~dm.done
    /\ dm' = [dm EXCEPT !.done = TRUE,
                        !.info = IF dm.ver = "v002"
                                 THEN choose_domain(dm.mode, dm.use, dm.rec, dm.reply)
                                 ELSE classify_domain003(dm.use, dm.rec, dm.reply)]
    /\ UNCHANGED <<pipeVars, fp, cl, nz, ex, rq>>

NextDomain == ChooseDomain

SpecDomain == InitDomain /\ [][NextDomain]_vars

\* the domains each script names as allowed
AllowedDomains(ver) ==
    IF ver = "v002" THEN Allowed002
    ELSE {"3d_printing", "yarn_crafts", "apparel", "footwear", "generic"}

\* what the heuristics alone say: v003 has "generic" at 0 for no match
HeurGuess(ver, rec) ==
    IF ver = "v002" THEN heuristic_domain(rec)
    ELSE IF detect_domain_heuristic(rec) # NoDomain THEN detect_domain_heuristic(rec)
    ELSE Heur("generic", 0, <<"unknown">>)

InSet(ver, d) == d.t = "s" /\ \E a \in AllowedDomains(ver) : DomainText(a) = d.v

\* the reply names a domain, and it is none of the allowed ones
OutOfSet(ver, d) ==
    /\ d.t = "s" /\ Strip(d.v) # <<>>
    /\ ~\E a \in AllowedDomains(ver) : DomainText(a) = Strip(d.v)

\* C15: whatever the record and the classification reply, the domain_info
\* has a confidence within [0,1], a domain of the allowed set (the
\* heuristic's when the reply names a domain outside the set) and at most
\* 4 signals.
C15_DomainInfoWellFormed ==
    dm.done =>
        /\ dm.info.confidence >= 0 /\ dm.info.confidence <= 100
        /\ InSet(dm.ver, dm.info.domain)
        /\ dm.info.signals.t = "l" /\ Len(dm.info.signals.v) <= 4
        /\ (dm.info.called /\ dm.reply.kind = "object"
              /\ OutOfSet(dm.ver, RawGet(dm.reply.obj, "domain")))
           => dm.info.domain.v = DomainText(HeurGuess(dm.ver, dm.rec).domain)

\* the reply is a failure of the classification request: a transport error,
\* a timeout, text that is not a JSON object, or a confidence that is no number
FailedClassification(reply) ==
    \/ reply.kind \in ClassifyFailures
    \/ /\ reply.kind = "object"
       /\ RawGet(reply.obj, "confidence").t = "s"

\* C16: when the classification request fails, domain selection returns the
\* heuristic's domain and confidence and appends exactly one ledger entry
\* with stage "classify".
C16_ClassifyFailureDegrades ==
    (dm.done /\ dm.info.called /\ FailedClassification(dm.reply)) =>
        /\ dm.info.domain = VStr(DomainText(HeurGuess(dm.ver, dm.rec).domain))
        /\ dm.info.confidence = HeurGuess(dm.ver, dm.rec).confidence
        /\ dm.info.entries = 1


(***************************************************************************)
(* The emitted record: the input record merged with the enrichment.        *)
(***************************************************************************)
ContractKeys == {"slug", "short_desc", "bullets", "tags", "seo_title", "seo_description"}

\* the record read from the XML file, as a dict
ProductDict(rec) == [k \in SeqToSet(KeysOf(rec)) |-> VStr(Get(rec, k, <<>>))]

\* the dict the enrichment step hands to the merge: the contract keys, and
\* in v003, whose ollama_enrich returns the parsed object itself, every
\* other key of that object
EnrichedDict(ver, res, raw) ==
    LET fields == [slug |-> VStr(res.slug), short_desc |-> VStr(res.short_desc),
                   bullets |-> VList(MapSeq(res.bullets, VStr)),
                   tags |-> VList(MapSeq(res.tags, VStr)),
                   seo_title |-> VStr(res.seo_title),
                   seo_description |-> VStr(res.seo_description)]
        kept == [k \in ContractKeys \ res.missing |-> fields[k]]
        others == {k \in SeqToSet(KeysOf(raw)) : k \notin ContractKeys}
    IN  IF ver = "v003" THEN kept @@ [k \in others |-> RawGet(raw, k)] ELSE kept

\* "_domain" (v002, v003) or "_meta" (v007, v008), its content left out
Annotation(ver) ==
    CASE ver \in {"v002", "v003"} -> [k \in {"_domain"} |-> VNull]
      [] ver \in {"v007", "v008"} -> [k \in {"_meta"} |-> VNull]
      [] OTHER -> [k \in {} |-> VNull]

\* the element appended to enriched_products; later keys replace earlier ones
Emitted(ver, rec, res, raw) ==
    IF ver \in {"v002", "v003"}
    THEN EnrichedDict(ver, res, raw) @@ Annotation(ver) @@ ProductDict(rec)
    ELSE Annotation(ver) @@ EnrichedDict(ver, res, raw) @@ ProductDict(rec)

\* C17: the emitted record holds every field of the input record with the
\* input's value, and beyond them only the enrichment keys and the script's
\* own annotation; no other key of the service's object reaches it.
C17_RecordFieldsKept ==
    (nz.done /\ nz.res.status = "ok") =>
        LET e == Emitted(nz.ver, nz.rec, nz.res, nz.gen.raw)
            p == ProductDict(nz.rec)
        IN  /\ \A k \in DOMAIN p : k \in DOMAIN e /\ e[k] = p[k]
            /\ DOMAIN e \subseteq DOMAIN p \cup ContractKeys \cup {"_domain", "_meta"}


\* C18: in v007, the version whose normaliser and fallback generator pad the
\* tags in a loop, that loop comes to an end for every record and every
\* outcome of generation and leaves at least 6 tags.
C18_TagPaddingTerminates ==
    (nz.done /\ nz.ver = "v007") =>
        /\ nz.res.status # "hang"
        /\ nz.res.status = "ok" => Len(nz.res.tags) >= 6

\* the tag each script derives from the value of a record field
DerivedTag(ver, value) ==
    CASE ver = "v002" -> slugify_ascii(Lower(safe_text(value)), 40)
      [] ver = "v003" -> slugify003(value, 30)
      [] ver = "v007" -> to_snake_tag(value)
      [] ver = "v008" -> snake_tag(value, 32)
      [] OTHER -> to_snake_case(value)

SeedFields == {"categoria", "material", "marca"}

\* C19: whatever tag list the generation holds, the result's tags contain
\* the tag derived from each of categoria, material and marca that the
\* record has.
C19_FieldTagsKept ==
    (nz.done /\ nz.gen.kind = "object" /\ nz.res.status = "ok") =>
        \A f \in SeedFields :
            Get(nz.rec, f, <<>>) # <<>> =>
                \E k \in 1..Len(nz.res.tags) :
                    nz.res.tags[k] = DerivedTag(nz.ver, Get(nz.rec, f, <<>>))


\* both texts are in the result, so that the two can be compared
HasBothTexts(res) ==
    /\ res.status = "ok"
    /\ "short_desc" \notin res.missing
    /\ "seo_description" \notin res.missing

\* C20: in every result of a normaliser or of a fallback generator the
\* seo_description, once trimmed, lower-cased and with its runs of spaces
\* collapsed, is different from the short_desc treated the same way; the
\* case where both are taken from the record's description is included.
C20_SeoDiffersFromShort ==
    (nz.done /\ HasBothTexts(nz.res)) =>
        _norm(nz.res.seo_description) # _norm(nz.res.short_desc)


\* C21: in every result built from a generation object the seo_title is
\* present, non-empty and at most 60 characters, and the seo_description is
\* present, non-empty and at most 160 characters, also when the object
\* leaves those keys out.
C21_SeoTextsBounded ==
    (nz.done /\ nz.gen.kind = "object" /\ nz.res.status = "ok") =>
        /\ "seo_title" \notin nz.res.missing
        /\ nz.res.seo_title # <<>>
        /\ Len(nz.res.seo_title) <= 60
        /\ "seo_description" \notin nz.res.missing
        /\ nz.res.seo_description # <<>>
        /\ Len(nz.res.seo_description) <= 160


\* the text a result's short_desc is taken from: the generation's, trimmed
ShortDescSource(raw) == Strip(TextOr(RawGet(raw, "short_desc"), <<>>))

\* the cap on short_desc: 140 where the code has one (v002, v007), and the
\* largest cap the description of the contract allows (220) elsewhere
ShortDescCap(ver) == IF ver \in {"v002", "v007"} THEN 140 ELSE 220

\* short ends a whole word of src: it is a prefix of src, its last character
\* is not a space and the character that follows it in src is one
CutAtWordEnd(short, src) ==
    /\ Len(short) < Len(src)
    /\ short = SubSeq(src, 1, Len(short))
    /\ short # <<>> /\ short[Len(short)] # " "
    /\ src[Len(short) + 1] = " "

\* C22: in every result built from a generation object that holds a
\* short_desc, the result's short_desc is no longer than the cap, and when
\* the generation's text is longer than the cap the result is a prefix of it
\* that ends at the end of a whole word.
C22_ShortDescCutAtWord ==
    (nz.done /\ nz.gen.kind = "object" /\ nz.res.status = "ok"
        /\ ShortDescSource(nz.gen.raw) # <<>>) =>
        /\ Len(nz.res.short_desc) <= ShortDescCap(nz.ver)
        /\ Len(ShortDescSource(nz.gen.raw)) > ShortDescCap(nz.ver) =>
               CutAtWordEnd(nz.res.short_desc, ShortDescSource(nz.gen.raw))


\* the longest slug a version lets through; 80 where the code names none
SlugCap(ver) == IF ver = "v002" THEN 70 ELSE 80

\* lower-case ASCII letters and digits joined by single hyphens
WellFormedSlug(slug) ==
    /\ slug # <<>>
    /\ \A k \in 1..Len(slug) : slug[k] \in AsciiLower \cup Digits \cup {"-"}
    /\ slug[1] # "-" /\ slug[Len(slug)] # "-"
    /\ \A k \in 1..(Len(slug) - 1) : ~(slug[k] = "-" /\ slug[k + 1] = "-")

\* C23: for every record and every generation object the slug of the result
\* is non-empty, is made of lower-case ASCII letters, digits and single
\* hyphens only, neither begins nor ends with a hyphen, and is no longer
\* than the maximum length.
C23_SlugWellFormed ==
    (nz.done /\ nz.gen.kind = "object" /\ nz.res.status = "ok") =>
        /\ WellFormedSlug(nz.res.slug)
        /\ Len(nz.res.slug) <= SlugCap(nz.ver)


\* the text begins with a field label: one word, then a colon
HasLabelPrefix(b) ==
    \E k \in 2..Len(b) :
        /\ b[k] = ":"
        /\ \A m \in 1..(k - 1) : ~IsSpaceCh(b[m]) /\ b[m] # ":"

\* C24: no bullet of any result, generated or fallback, begins with a field
\* label such as "Material:" or "Categoria:"; the bullets made from the
\* record's fields when generation gave fewer than three are included.
C24_NoLabelledBullet ==
    (nz.done /\ nz.res.status = "ok") =>
        \A k \in 1..Len(nz.res.bullets) : ~HasLabelPrefix(nz.res.bullets[k])


\* C25: for every parsed generation object, one with a contract key missing,
\* null or of an unexpected JSON type included, normalisation raises nothing.
C25_NormalizeNeverRaises ==
    (nz.done /\ nz.gen.kind = "object") => nz.res.status # "raise"


\* C26: for a reply text with nothing to extract (empty, only white space,
\* without any "{", or whose first "{" is never closed) the extractor
\* returns the empty text.
C26_NothingToExtractIsEmpty ==
    (ex.done /\ FirstObject(ex.text) = <<>>) => ex.res = <<>>


\* the heuristics alone decide: the domain_info is theirs, method heuristic
HeuristicAnswer(info, h) ==
    /\ info.domain = VStr(DomainText(h.domain))
    /\ info.confidence = h.confidence
    /\ info.method = "heuristic"
    /\ ~info.called

\* C27: domain selection asks the service to classify only when no domain is
\* forced, classification by the service is enabled and the heuristic
\* confidence is below the threshold of 0.70; with a forced domain it
\* returns that domain with confidence 1.0 and method "forced"; with a
\* heuristic confidence at or above the threshold it returns the heuristic
\* result with method "heuristic" and asks nothing, and a record whose
\* material is PLA is such a case, with a confidence of at least 0.90.
C27_ClassifyOnlyWhenUnsure ==
    dm.done =>
        LET h == HeurGuess(dm.ver, dm.rec)
        IN  /\ dm.info.called =>
                   /\ dm.mode = "auto" /\ dm.use
                   /\ h.confidence < HEURISTIC_CONF_THRESHOLD
            /\ dm.mode # "auto" =>
                   /\ dm.info.domain = VStr(DomainText(dm.mode))
                   /\ dm.info.confidence = 100
                   /\ dm.info.method = "forced"
                   /\ ~dm.info.called
            /\ (dm.mode = "auto" /\ h.confidence >= HEURISTIC_CONF_THRESHOLD) =>
                   HeuristicAnswer(dm.info, h)
            /\ (dm.mode = "auto" /\ Get(dm.rec, "material", <<>>) = <<"P","L","A">>) =>
                   /\ HeuristicAnswer(dm.info, h)
                   /\ dm.info.confidence >= 90

\* a record the heuristics are unsure of has been sent to the service
C27_Witness ==
    /\ dm.done /\ dm.ver = "v002" /\ dm.mode = "auto" /\ dm.use
    /\ HeurGuess(dm.ver, dm.rec).confidence < HEURISTIC_CONF_THRESHOLD
    /\ dm.info.called /\ dm.info.method = "ollama_classify"


(***************************************************************************)
(* Request study: the requests one record's generation call sends.         *)
(***************************************************************************)
\* what the service does with one request: a reply holding a JSON object, a
\* reply whose text json.loads rejects, a timeout, an HTTP error status
RequestOutcomes == {"object", "malformed", "timeout", "http"}

\* values of MAX_RETRIES
RetryCounts == {0, 1, 2}

RetryVersions == {"final", "v003", "v004", "v007", "v008"}

\* the first request of an attempt: v004 asks with format=json first when
\* TRY_OLLAMA_FORMAT_JSON is set
FirstStage(ver, fmt) == IF ver = "v004" /\ fmt THEN "format" ELSE "plain"

\* the request returned something the caller goes on with: ollama_generate
\* of the final version returns any reply text, the loops of the other
\* versions need text that parses
Succeeded(ver, o) == o = "object" \/ (ver = "final" /\ o = "malformed")

\* raw_txt of v008's loop: empty at first, then str(e) of the exception
\* that the failed request or the failed parse raised
NoText == [what |-> "nothing", of |-> ""]

ErrorText(o) == [what |-> "exception message", of |-> o]

InitRequest ==
    /\ PipeIdle /\ fp = Idle /\ cl = Idle /\ nz = Idle /\ ex = Idle /\ dm = Idle
    /\ \E ver \in RetryVersions : \E n \in RetryCounts : \E fmt \in BOOLEAN :
           /\ (ver # "v004" => fmt)
           /\ rq = [done |-> FALSE, ver |-> ver, retries |-> n, fmt |-> fmt, attempt |-> 0,
                    stage |-> FirstStage(ver, fmt), rawTxt |-> NoText, log |-> <<>>,
                    result |-> ""]

\* the next pass of "for attempt in range(MAX_RETRIES + 1)", or its end
NextAttempt(r) ==
    IF r.attempt < r.retries
    THEN [r EXCEPT !.attempt = @ + 1, !.stage = FirstStage(r.ver, r.fmt)]
    ELSE [r EXCEPT !.done = TRUE, !.result = "failed"]

\* the request that is under way is answered with o; in v008 a failed
\* generation request is followed by try_repair_json(raw_txt) when raw_txt
\* is not empty, and raw_txt is set after that
GenerateReply(o) ==
    /\ rq # Idle /\ ~rq.done
    /\ LET r == [rq EXCEPT !.log = Append(@, [stage |-> rq.stage, reply |-> o,
                                             asked |-> rq.rawTxt])]
           ok == [r EXCEPT !.done = TRUE, !.result = "ok"]
       IN  rq' = CASE Succeeded(rq.ver, o) -> ok
                   [] rq.ver = "v004" /\ rq.stage = "format" -> [r EXCEPT !.stage = "plain"]
                   [] rq.ver = "v008" /\ rq.stage = "plain" /\ rq.rawTxt # NoText ->
                        [r EXCEPT !.stage = "repair"]
                   [] rq.ver = "v008" -> NextAttempt([r EXCEPT !.rawTxt = ErrorText(o)])
                   [] OTHER -> NextAttempt(r)
    /\ UNCHANGED <<pipeVars, fp, cl, nz, ex, dm>>

NextRequest == \E o \in RequestOutcomes : GenerateReply(o)

SpecRequest == InitRequest /\ [][NextRequest]_vars

\* the replies to the generation requests of the call, repairs left out
GenerationReplies(log) == SelectSeq(log, LAMBDA e : e.stage # "repair")

\* C28: the generation call of a record sends at most MAX_RETRIES + 1
\* generation requests; it ends with the reply of the first request that
\* succeeds, or in failure after requests that all failed, and sends
\* nothing after a request has succeeded.
C28_BoundedRequests ==
    rq # Idle =>
        LET g == GenerationReplies(rq.log)
        IN  /\ Len(g) <= rq.retries + 1
            /\ \A k \in 1..(Len(rq.log) - 1) : ~Succeeded(rq.ver, rq.log[k].reply)
            /\ rq.result = "ok" => Succeeded(rq.ver, rq.log[Len(rq.log)].reply)
            /\ rq.result = "failed" =>
                   \A k \in 1..Len(rq.log) : ~Succeeded(rq.ver, rq.log[k].reply)


\* positions in the log of the repair requests
RepairsAt(log) == {k \in 1..Len(log) : log[k].stage = "repair"}

\* the text of the reply that json.loads rejected
MalformedOutput == [what |-> "reply text", of |-> "malformed"]

\* C29: for one record at most one repair request is sent, it follows
\* directly a reply that was malformed, and the text it asks the service to
\* fix is that malformed reply.
C29_SingleRepairOfOutput ==
    rq # Idle =>
        /\ Cardinality(RepairsAt(rq.log)) <= 1
        /\ \A k \in RepairsAt(rq.log) :
               /\ k > 1 /\ rq.log[k - 1].reply = "malformed"
               /\ rq.log[k].asked = MalformedOutput


(***************************************************************************)
(* Runs under a new rules version: RULES_VERSION of v007 is raised between *)
(* two runs, the cache file of the earlier run is still there.             *)
(***************************************************************************)
\* the script is edited to a higher RULES_VERSION and started again on the
\* same input
NextRunNewRules ==
    /\ pc = "done" /\ version = "v007"
    /\ run < MaxRuns
    /\ run' = run + 1
    /\ pc' = "start"
    /\ cfg' = [cfg EXCEPT !.rules = @ + 1]
    /\ prevOut' = [k \in 1..Len(out) |-> [key |-> out[k].key, res |-> out[k].res]]
    /\ UNCHANGED <<version, input, i, cur, cache, disk, errors, diskErrors, out,
                   produced, fp, cl, nz, ex, dm, rq>>

NextRules == Next \/ NextRunNewRules

SpecRules == Init /\ [][NextRules]_vars

\* the entries of a cache are all in the other, unchanged
KeptIn(old, new) == \A k \in DOMAIN old : k \in DOMAIN new /\ new[k] = old[k]

\* the record being looked up is found in the cache
IsHit ==
    /\ pc = "lookup"
    /\ CacheKey(version, input[i], cur.dom.domain, cfg) \in DOMAIN cache

\* C30: no step of a run overwrites or removes an entry of the cache, in
\* memory or on disk; a cache hit leaves the cache and the error ledger as
\* they were; and when a later run, under the same or a new rules version,
\* is complete, the entries that served the earlier run are still in the
\* cache file, unchanged.
C30_CacheEntriesKept ==
    /\ [][/\ KeptIn(cache, cache')
          /\ KeptIn(disk, disk')
          /\ IsHit => (cache' = cache /\ errors' = errors)]_vars
    /\ [](( pc = "done" /\ HasCache) =>
             \A k \in 1..Len(prevOut) :
                 /\ prevOut[k].key \in DOMAIN disk
                 /\ disk[prevOut[k].key].res = prevOut[k].res)

\* a run under a raised rules version is complete: its record was not found
\* in the cache, and the cache file holds the old entry beside the new one
C30_Witness ==
    /\ pc = "done" /\ run = 2 /\ version = "v007"
    /\ cfg.rules # DefaultCfg(version).rules
    /\ prevOut # <<>> /\ ~out[1].hit
    /\ prevOut[1].key \in DOMAIN disk /\ out[1].key \in DOMAIN disk
    /\ prevOut[1].key # out[1].key

====
